---- MODULE Spec2Model ----
(***************************************************************************)
(* A model of the typed value layer of pharosnet/sql.extra (package        *)
(* postgres): the Value objects (pgInteger, pgFloat, pgBool, pgText,       *)
(* pgBytea, pgNumeric, pgTimestamp, pgEnum, pgArray, pgRow, pgRecord,      *)
(* pgHStore), their Scan / IsNull / Val / String / bytes methods, and the  *)
(* tokenizer (split) and escaper (escape) the composites are built on.     *)
(*                                                                         *)
(* Representation.                                                         *)
(*  - A Go string or []byte is a sequence of bytes; a byte is written as a *)
(*    one-character string ("a", "7", "{"), and the two bytes of the UTF-8 *)
(*    encoding of U+00E9 are written "0xC3" and "0xA9".                    *)
(*  - An int64 is a sign and a magnitude of decimal digits (most           *)
(*    significant first, no leading zero), so that 2^31 and 2^63 are       *)
(*    values of the model.                                                 *)
(*  - An interface{} handed to Scan is a record [k |-> kind, v |-> value]. *)
(*  - A Value object is a record whose field t names its Go type and whose *)
(*    other fields are the fields of the Go struct.                        *)
(*  - A method that mutates its receiver and returns an error is an        *)
(*    operator returning [k |-> receiver afterwards, err |-> outcome],     *)
(*    outcome being "nil" (success), "error" or "panic".                   *)
(***************************************************************************)
EXTENDS Integers, Sequences, FiniteSets, TLC

VARIABLES kind, cur, pre, op, arg, res, field, heap, hpre, held, hop,
          queries, arrays, apre, qop, fcall, fin, fout, dbop

valueVars == <<kind, cur, pre, op, arg, res, field>>
heapVars == <<heap, hpre, held, hop>>
queryVars == <<queries, arrays, apre, qop>>
fnVars == <<fcall, fin, fout>>
vars == <<valueVars, heapVars, queryVars, fnVars, dbop>>

(***************************************************************************)
(* Bytes.                                                                  *)
(***************************************************************************)
Digits == <<"0", "1", "2", "3", "4", "5", "6", "7", "8", "9">>

isDigit(b) == \E i \in 1..10 : Digits[i] = b

\* the numeric value of a decimal digit byte
digitVal(b) == (CHOOSE i \in 1..10 : Digits[i] = b) - 1

\* the byte of a decimal digit
digitByte(d) == Digits[d + 1]

\* var nullBytes = []byte("NULL")
nullBytes == <<"N", "U", "L", "L">>

(***************************************************************************)
(* int64 as sign and decimal magnitude.                                    *)
(***************************************************************************)
I64(neg, mag) == [neg |-> neg, mag |-> mag]

Zero == I64(FALSE, <<0>>)

MagLt(a, b) ==
    \/ Len(a) < Len(b)
    \/ /\ Len(a) = Len(b)
       /\ \E i \in 1..Len(a) : /\ a[i] < b[i]
                               /\ \A j \in 1..(i - 1) : a[j] = b[j]

\* a < b on int64
IntLt(a, b) ==
    IF a.neg # b.neg THEN a.neg
    ELSE IF a.neg THEN MagLt(b.mag, a.mag) ELSE MagLt(a.mag, b.mag)

MaxInt8  == I64(FALSE, <<1, 2, 7>>)
MaxInt16 == I64(FALSE, <<3, 2, 7, 6, 7>>)
MaxInt32 == I64(FALSE, <<2, 1, 4, 7, 4, 8, 3, 6, 4, 7>>)
MaxInt64 == I64(FALSE, <<9, 2, 2, 3, 3, 7, 2, 0, 3, 6, 8, 5, 4, 7, 7, 5, 8, 0, 7>>)

\* the magnitude of 2^(bitSize-1), strconv.ParseInt's cutoff
CutoffMag(bitSize) ==
    CASE bitSize = 8  -> <<1, 2, 8>>
      [] bitSize = 16 -> <<3, 2, 7, 6, 8>>
      [] bitSize = 32 -> <<2, 1, 4, 7, 4, 8, 3, 6, 4, 8>>
      [] OTHER        -> <<9, 2, 2, 3, 3, 7, 2, 0, 3, 6, 8, 5, 4, 7, 7, 5, 8, 0, 8>>

\* the magnitude of 2^(bitSize-1) - 1
MaxMag(bitSize) ==
    CASE bitSize = 8  -> MaxInt8.mag
      [] bitSize = 16 -> MaxInt16.mag
      [] bitSize = 32 -> MaxInt32.mag
      [] OTHER        -> MaxInt64.mag

(***************************************************************************)
(* interface{} values.                                                     *)
(***************************************************************************)
Nil == [k |-> "nil", v |-> <<>>]

NInt(n)    == [k |-> "int", v |-> n]
NInt64(n)  == [k |-> "int64", v |-> n]
NUint(n)   == [k |-> "uint64", v |-> n]
NStr(s)    == [k |-> "string", v |-> s]
NBytes(s)  == [k |-> "bytes", v |-> s]
NBool(b)   == [k |-> "bool", v |-> b]
NFloat(f)  == [k |-> "float64", v |-> f]
NTime(t)   == [k |-> "time", v |-> t]
NList(l)   == [k |-> "list", v |-> l]
NMap(m)    == [k |-> "map", v |-> m]

\* a method's outcome: the receiver afterwards and the error returned
Out(k, e) == [k |-> k, err |-> e]

\* x := e followed by the statements that read x: e is evaluated once
Let(e, rest(_)) == rest(e)

(***************************************************************************)
(* strconv.ParseInt(s, 10, bitSize) and fmt.Sprintf("%d", n).              *)
(***************************************************************************)
RECURSIVE stripZeros(_)
stripZeros(ds) ==
    IF Len(ds) > 1 /\ ds[1] = 0 THEN stripZeros(Tail(ds)) ELSE ds

\* [n |-> the int64 returned, err |-> "nil" or "error"]
ParseInt(s, bitSize) ==
    LET signed == Len(s) > 0 /\ s[1] \in {"+", "-"}
        neg    == Len(s) > 0 /\ s[1] = "-"
        body   == IF signed THEN Tail(s) ELSE s
    IN  IF Len(body) = 0 \/ \E i \in 1..Len(body) : ~isDigit(body[i])
        THEN [n |-> Zero, err |-> "error"]                 \* ErrSyntax
        ELSE LET mag == stripZeros([i \in 1..Len(body) |-> digitVal(body[i])])
             IN  IF ~neg /\ ~MagLt(mag, CutoffMag(bitSize))
                 THEN [n |-> I64(FALSE, MaxMag(bitSize)), err |-> "error"]   \* ErrRange
                 ELSE IF neg /\ MagLt(CutoffMag(bitSize), mag)
                 THEN [n |-> I64(TRUE, CutoffMag(bitSize)), err |-> "error"] \* ErrRange
                 ELSE [n |-> I64(neg /\ mag # <<0>>, mag), err |-> "nil"]

FormatInt(n) ==
    (IF n.neg THEN <<"-">> ELSE <<>>) \o [i \in 1..Len(n.mag) |-> digitByte(n.mag[i])]

(***************************************************************************)
(* fitInt: "converts n to int64, returns error if n does not fit into the  *)
(* int bitsize".                                                           *)
(***************************************************************************)
fitInt(v, bitSize) ==
    IF v.k = "uint64" /\ ~IntLt(v.v, MaxInt64)
    THEN [r |-> Zero, err |-> "error"]
    ELSE LET r  == v.v
             ok == CASE bitSize = 8  -> IntLt(r, MaxInt8)
                     [] bitSize = 16 -> IntLt(r, MaxInt16)
                     [] bitSize = 32 -> IntLt(r, MaxInt32)
                     [] OTHER        -> TRUE
         IN  IF bitSize \notin {8, 16, 32, 64} THEN [r |-> Zero, err |-> "error"]
             ELSE IF ~ok THEN [r |-> Zero, err |-> "error"]
             ELSE [r |-> r, err |-> "nil"]

(***************************************************************************)
(* pgInteger                                                               *)
(***************************************************************************)
newInt(bs) == [t |-> "pgInteger", n |-> Zero, bs |-> bs, valid |-> FALSE]

pgInteger_Scan(k, x) ==
    IF x.k = "nil" THEN Out([k EXCEPT !.valid = FALSE], "nil")
    ELSE LET k1 == [k EXCEPT !.valid = TRUE]
         IN  CASE x.k \in {"int", "int64", "uint64"} ->
                    Let(fitInt(x, k.bs), LAMBDA f : Out([k1 EXCEPT !.n = f.r], f.err))
               [] x.k \in {"bytes", "string"} ->
                    Let(ParseInt(x.v, k.bs), LAMBDA p : Out([k1 EXCEPT !.n = p.n], p.err))
               [] OTHER -> Out(k1, "error")

pgInteger_bytes(k) == IF ~k.valid THEN nullBytes ELSE FormatInt(k.n)

pgInteger_String(k) == IF ~k.valid THEN <<>> ELSE FormatInt(k.n)

pgInteger_Val(k) == IF ~k.valid THEN Nil ELSE NInt64(k.n)

(***************************************************************************)
(* pgBool                                                                  *)
(***************************************************************************)
newBool == [t |-> "pgBool", b |-> FALSE, valid |-> FALSE]

pgBool_Scan(k, x) ==
    IF x.k = "nil" THEN Out([k EXCEPT !.valid = FALSE], "nil")
    ELSE LET k1 == [k EXCEPT !.valid = TRUE, !.b = FALSE]
         IN  CASE x.k \in {"string", "bytes"} ->
                    IF Len(x.v) = 0 THEN Out(k1, "panic")      \* x[0] out of range
                    ELSE IF x.v[1] = "t" \/ x.v[1] = "1"
                    THEN Out([k1 EXCEPT !.b = TRUE], "nil")
                    ELSE Out(k1, "nil")
               [] x.k = "int" ->
                    IF x.v = I64(FALSE, <<1>>)
                    THEN Out([k1 EXCEPT !.b = TRUE], "nil")
                    ELSE Out(k1, "nil")
               [] x.k = "bool" -> Out([k1 EXCEPT !.b = x.v], "nil")
               [] OTHER -> Out(k1, "error")

pgBool_String(k) == IF ~k.valid THEN <<>> ELSE IF k.b THEN <<"t">> ELSE <<"f">>

pgBool_bytes(k) == IF ~k.valid THEN nullBytes ELSE pgBool_String(k)

pgBool_Val(k) == IF ~k.valid THEN Nil ELSE NBool(k.b)

(***************************************************************************)
(* pgText: Text, VarChar(n), Char(n)                                       *)
(***************************************************************************)
\* strings.TrimRight(s, " ")
RECURSIVE TrimRight(_)
TrimRight(s) ==
    IF Len(s) > 0 /\ s[Len(s)] = " " THEN TrimRight(SubSeq(s, 1, Len(s) - 1)) ELSE s

\* utf8.RuneCountInString: a two-byte lead followed by a continuation byte is
\* one rune; every other byte (ASCII, or a stray lead or continuation) is one.
RECURSIVE RuneCount(_)
RuneCount(s) ==
    IF Len(s) = 0 THEN 0
    ELSE IF Len(s) >= 2 /\ s[1] = "0xC3" /\ s[2] = "0xA9"
    THEN 1 + RuneCount(SubSeq(s, 3, Len(s)))
    ELSE 1 + RuneCount(Tail(s))

Spaces(n) == [i \in 1..n |-> " "]

\* fmt.Sprintf("%-" + strconv.Itoa(n) + "s", s): fmt pads to a width of n runes
PadRight(s, n) ==
    IF RuneCount(s) < n THEN s \o Spaces(n - RuneCount(s)) ELSE s

newText(n, p) == [t |-> "pgText", s |-> <<>>, n |-> n, p |-> p, valid |-> FALSE]

pgText_Scan(k, x) ==
    IF x.k = "nil" THEN Out([k EXCEPT !.valid = FALSE], "nil")
    ELSE LET k1 == [k EXCEPT !.valid = TRUE]
         IN  IF x.k \notin {"string", "bytes"} THEN Out(k1, "error")
             ELSE IF k.p
             THEN LET s == TrimRight(x.v)
                  IN  IF Len(s) > k.n THEN Out([k1 EXCEPT !.s = s], "error")
                      ELSE IF Len(s) < k.n
                      THEN Out([k1 EXCEPT !.s = PadRight(s, k.n)], "nil")
                      ELSE Out([k1 EXCEPT !.s = s], "nil")
             ELSE IF k.n > 0 /\ Len(x.v) > k.n
             THEN Out([k1 EXCEPT !.s = SubSeq(x.v, 1, k.n)], "nil")
             ELSE Out([k1 EXCEPT !.s = x.v], "nil")

pgText_bytes(k) == IF ~k.valid THEN nullBytes ELSE k.s

pgText_String(k) == IF ~k.valid THEN <<>> ELSE k.s

pgText_Val(k) == IF ~k.valid THEN Nil ELSE NStr(k.s)

(***************************************************************************)
(* pgEnum                                                                  *)
(***************************************************************************)
newEnum(labels) == [t |-> "pgEnum", s |-> <<>>, ls |-> labels, valid |-> FALSE]

pgEnum_Scan(k, x) ==
    IF x.k = "nil" THEN Out([k EXCEPT !.valid = FALSE], "nil")
    ELSE LET k1 == [k EXCEPT !.valid = TRUE]
         IN  IF x.k \notin {"string", "bytes"} THEN Out(k1, "error")
             ELSE LET k2 == [k1 EXCEPT !.s = x.v]
                      ok == \E i \in 1..Len(k.ls) : k2.s = k.ls[i]
                  IN  IF ~ok THEN Out(k2, "error") ELSE Out(k2, "nil")

pgEnum_bytes(k) == IF ~k.valid THEN nullBytes ELSE k.s

pgEnum_String(k) == IF ~k.valid THEN <<>> ELSE k.s

pgEnum_Val(k) == IF ~k.valid THEN Nil ELSE NStr(k.s)

(***************************************************************************)
(* Hexadecimal: fmt's %x of a []byte and encoding/hex.DecodeString.  The   *)
(* table gives the two lowercase hex digits of every byte the model reads. *)
(***************************************************************************)
HexTable ==
    << <<" ", "2", "0">>, <<"\"", "2", "2">>, <<"'", "2", "7">>, <<"(", "2", "8">>,
       <<")", "2", "9">>, <<"+", "2", "b">>, <<",", "2", "c">>, <<"-", "2", "d">>,
       <<".", "2", "e">>, <<"0", "3", "0">>, <<"1", "3", "1">>, <<"2", "3", "2">>,
       <<"3", "3", "3">>, <<"4", "3", "4">>, <<"5", "3", "5">>, <<"6", "3", "6">>,
       <<"7", "3", "7">>, <<"8", "3", "8">>, <<"9", "3", "9">>, <<":", "3", "a">>,
       <<"=", "3", "d">>, <<">", "3", "e">>, <<"L", "4", "c">>, <<"N", "4", "e">>,
       <<"T", "5", "4">>, <<"U", "5", "5">>, <<"Z", "5", "a">>, <<"\\", "5", "c">>,
       <<"a", "6", "1">>, <<"b", "6", "2">>, <<"c", "6", "3">>, <<"d", "6", "4">>,
       <<"e", "6", "5">>, <<"f", "6", "6">>, <<"j", "6", "a">>, <<"k", "6", "b">>,
       <<"t", "7", "4">>, <<"v", "7", "6">>, <<"x", "7", "8">>, <<"y", "7", "9">>,
       <<"{", "7", "b">>, <<"}", "7", "d">>, <<"0xA9", "a", "9">>,
       <<"0xC3", "c", "3">>, <<"0xDE", "d", "e">>, <<"0xAD", "a", "d">> >>

\* fmt.Sprintf("%x", b)
RECURSIVE hexEncode(_)
hexEncode(b) ==
    IF Len(b) = 0 THEN <<>>
    ELSE LET e == CHOOSE i \in 1..Len(HexTable) : HexTable[i][1] = b[1]
         IN  <<HexTable[e][2], HexTable[e][3]>> \o hexEncode(Tail(b))

isHexDigit(c) == isDigit(c) \/ c \in {"a", "b", "c", "d", "e", "f"}

\* the byte with hex digits h, l
hexByte(h, l) ==
    IF \E i \in 1..Len(HexTable) : HexTable[i][2] = h /\ HexTable[i][3] = l
    THEN HexTable[CHOOSE i \in 1..Len(HexTable) :
                      HexTable[i][2] = h /\ HexTable[i][3] = l][1]
    ELSE "0x" \o h \o l

\* hex.DecodeString(s) with its error dropped: the bytes decoded before the
\* first invalid digit, or before the odd last digit
RECURSIVE hexDecode(_)
hexDecode(s) ==
    IF Len(s) < 2 \/ ~isHexDigit(s[1]) \/ ~isHexDigit(s[2]) THEN <<>>
    ELSE <<hexByte(s[1], s[2])>> \o hexDecode(SubSeq(s, 3, Len(s)))

(***************************************************************************)
(* pgBytea                                                                 *)
(***************************************************************************)
newBytea == [t |-> "pgBytea", b |-> <<>>, valid |-> FALSE]

pgBytea_Scan(k, x) ==
    IF x.k = "nil" THEN Out([k EXCEPT !.valid = FALSE], "nil")
    ELSE LET k1 == [k EXCEPT !.valid = TRUE]
         IN  IF x.k = "bytes" THEN Out([k1 EXCEPT !.b = x.v], "nil")
             ELSE Out(k1, "error")

pgBytea_bytes(k) ==
    IF ~k.valid THEN nullBytes ELSE <<"\\", "x">> \o hexEncode(k.b)

pgBytea_String(k) == IF ~k.valid THEN <<>> ELSE k.b

pgBytea_Val(k) == IF ~k.valid THEN Nil ELSE NBytes(k.b)

(***************************************************************************)
(* Floating point.  A float64 is modelled as a decimal fixed-point number  *)
(* with two fractional digits, [inf |-> 0, h |-> hundredths], or an        *)
(* infinity [inf |-> 1 or -1, h |-> 0]; the float32 values are those with  *)
(* one fractional digit (h a multiple of 10).  Conversions round to the    *)
(* nearest representable value, ties to even, as IEEE 754 conversions do.  *)
(***************************************************************************)
F(h) == [inf |-> 0, h |-> h]

Inf(sign) == [inf |-> sign, h |-> 0]

\* math.MaxFloat32 and math.MaxFloat64, in hundredths
MaxFloatH(bitSize) == IF bitSize = 32 THEN 99990 ELSE 9999999

FloatGt(a, b) ==
    IF a.inf # 0 \/ b.inf # 0 THEN a.inf > b.inf
    ELSE a.h > b.h

Abs(n) == IF n < 0 THEN 0 - n ELSE n

\* n rounded to the nearest multiple of m, ties to the even multiple (n >= 0)
RoundEven(n, m) ==
    LET q == n \div m
        r == n % m
    IN  IF 2 * r < m THEN q * m
        ELSE IF 2 * r > m THEN (q + 1) * m
        ELSE IF q % 2 = 0 THEN q * m ELSE (q + 1) * m

RECURSIVE digitsToNat(_)
digitsToNat(ds) ==
    IF Len(ds) = 0 THEN 0
    ELSE 10 * digitsToNat(SubSeq(ds, 1, Len(ds) - 1)) + digitVal(ds[Len(ds)])

RECURSIVE natDigits(_)
natDigits(n) ==
    IF n < 10 THEN <<digitByte(n)>> ELSE natDigits(n \div 10) \o <<digitByte(n % 10)>>

RECURSIVE dropZeroBytes(_)
dropZeroBytes(s) ==
    IF Len(s) > 0 /\ s[1] = "0" THEN dropZeroBytes(Tail(s)) ELSE s

\* float32(x): the nearest float32, an infinity when that exceeds MaxFloat32
ToFloat32(x) ==
    IF x.inf # 0 THEN x
    ELSE LET r == RoundEven(Abs(x.h), 10)
         IN  IF r > MaxFloatH(32) THEN Inf(IF x.h < 0 THEN -1 ELSE 1)
             ELSE F(IF x.h < 0 THEN 0 - r ELSE r)

\* strconv.ParseFloat(s, bitSize) on the decimal grammar [+-]digits[.digits]
\* and on [+-]Inf:
\* [n |-> the float64 returned, err |-> "nil" or "error"]
ParseFloat(s, bitSize) ==
    LET signed == Len(s) > 0 /\ s[1] \in {"+", "-"}
        neg    == Len(s) > 0 /\ s[1] = "-"
        body   == IF signed THEN Tail(s) ELSE s
        dots   == {i \in 1..Len(body) : body[i] = "."}
        dot    == IF dots = {} THEN Len(body) + 1 ELSE CHOOSE i \in dots : TRUE
        ip     == SubSeq(body, 1, dot - 1)
        fp     == SubSeq(body, dot + 1, Len(body))
        keep   == IF bitSize = 32 THEN 1 ELSE 2
        unit   == IF bitSize = 32 THEN 10 ELSE 1
    IN  IF body = <<"I", "n", "f">>                              \* special
        THEN [n |-> Inf(IF neg THEN -1 ELSE 1), err |-> "nil"]
        ELSE IF \/ Cardinality(dots) > 1
                \/ Len(ip) + Len(fp) = 0
                \/ \E i \in 1..Len(ip) : ~isDigit(ip[i])
                \/ \E i \in 1..Len(fp) : ~isDigit(fp[i])
        THEN [n |-> F(0), err |-> "error"]                       \* ErrSyntax
        ELSE IF Len(dropZeroBytes(ip)) > 7
        THEN [n |-> Inf(IF neg THEN -1 ELSE 1), err |-> "error"] \* ErrRange
        ELSE LET fpad  == fp \o <<"0", "0", "0">>
                 whole == digitsToNat(ip \o SubSeq(fpad, 1, keep))
                 rest  == SubSeq(fp, keep + 1, Len(fp))
                 more  == \E i \in 2..Len(rest) : rest[i] # "0"
                 up    == /\ Len(rest) > 0
                          /\ \/ digitVal(rest[1]) > 5
                             \/ digitVal(rest[1]) = 5 /\ (more \/ whole % 2 = 1)
                 h     == (IF up THEN whole + 1 ELSE whole) * unit
             IN  IF h > MaxFloatH(bitSize)
                 THEN [n |-> Inf(IF neg THEN -1 ELSE 1), err |-> "error"]
                 ELSE [n |-> F(IF neg THEN 0 - h ELSE h), err |-> "nil"]

\* the digits of h hundredths with exactly prec fractional digits
FixedDigits(h, prec) ==
    LET r == IF prec >= 2 THEN h
             ELSE IF prec = 1 THEN RoundEven(h, 10) ELSE RoundEven(h, 100)
        ip == natDigits(r \div 100)
        f2 == <<digitByte((r % 100) \div 10), digitByte(r % 10)>>
    IN  IF prec = 0 THEN ip
        ELSE ip \o <<".">> \o SubSeq(f2 \o [i \in 1..(prec - 2) |-> "0"], 1, prec)

\* strconv.FormatFloat(x, 'f', prec, 64), prec >= 0
FormatFloatFixed(x, prec) ==
    IF x.inf = 1 THEN <<"+", "I", "n", "f">>
    ELSE IF x.inf = -1 THEN <<"-", "I", "n", "f">>
    ELSE (IF x.h < 0 THEN <<"-">> ELSE <<>>) \o FixedDigits(Abs(x.h), prec)

\* strconv.FormatFloat(x, 'f', -1, 32): the shortest decimal that reads back
\* as float32(x)
FormatFloatShortest32(x) ==
    LET y == ToFloat32(x)
    IN  IF y.inf # 0 THEN FormatFloatFixed(y, 0)
        ELSE IF y.h % 100 = 0 THEN FormatFloatFixed(y, 0)
        ELSE FormatFloatFixed(y, 1)

(***************************************************************************)
(* pgFloat: Real (32), Double (64)                                         *)
(***************************************************************************)
newFloat(bs) == [t |-> "pgFloat", n |-> F(0), bs |-> bs, valid |-> FALSE]

pgFloat_Scan(k, x) ==
    IF x.k = "nil" THEN Out([k EXCEPT !.valid = FALSE], "nil")
    ELSE LET k1 == [k EXCEPT !.valid = TRUE]
         IN  CASE x.k = "float64" ->
                    IF k.bs = 32 /\ FloatGt(x.v, F(MaxFloatH(32)))
                    THEN Out(k1, "error")
                    ELSE Out([k1 EXCEPT !.n = x.v], "nil")
               [] x.k = "float32" -> Out([k1 EXCEPT !.n = x.v], "nil")
               [] x.k \in {"string", "bytes"} ->
                    Let(ParseFloat(x.v, k.bs), LAMBDA p : Out([k1 EXCEPT !.n = p.n], p.err))
               [] OTHER -> Out(k1, "error")

pgFloat_String(k) == IF ~k.valid THEN <<>> ELSE FormatFloatShortest32(k.n)

pgFloat_bytes(k) == IF ~k.valid THEN nullBytes ELSE pgFloat_String(k)

pgFloat_Val(k) == IF ~k.valid THEN Nil ELSE NFloat(k.n)

(***************************************************************************)
(* pgNumeric                                                               *)
(***************************************************************************)
newNumeric(prec, scale) ==
    [t |-> "pgNumeric", s |-> <<>>, prec |-> prec, scale |-> scale, valid |-> FALSE]

pgNumeric_Scan(k, x) ==
    IF x.k = "nil" THEN Out([k EXCEPT !.valid = FALSE], "nil")
    ELSE LET k1 == [k EXCEPT !.valid = TRUE]
         IN  CASE x.k \in {"float32", "float64"} ->
                    Out([k1 EXCEPT !.s = FormatFloatFixed(x.v, k.scale)], "nil")
               [] x.k \in {"string", "bytes"} -> Out([k1 EXCEPT !.s = x.v], "nil")
               [] OTHER -> Out(k1, "error")

pgNumeric_bytes(k) == IF ~k.valid THEN nullBytes ELSE k.s

pgNumeric_String(k) == IF ~k.valid THEN <<>> ELSE k.s

pgNumeric_Val(k) == IF ~k.valid THEN Nil ELSE NStr(k.s)

(***************************************************************************)
(* time.Time, time.Parse and Time.Format.  A time.Time is the record of    *)
(* its calendar fields in its own zone and its zone offset in seconds.  A  *)
(* layout is the sequence of its chunks as time.nextStdChunk cuts it: the  *)
(* standard chunks "2006", "01", "02", "15", "04", "05", "-07" and, one by *)
(* one, the literal bytes between them.                                    *)
(***************************************************************************)
Time(Y, M, D, h, mi, sec, ns, off) ==
    [Y |-> Y, M |-> M, D |-> D, h |-> h, mi |-> mi, s |-> sec, ns |-> ns, off |-> off]

\* time.Time{}
ZeroTime == Time(1, 1, 1, 0, 0, 0, 0, 0)

timeFormats ==
    << <<"2006", "-", "01", "-", "02", " ", "15", ":", "04", ":", "05", "-07">>,
       <<"2006", "-", "01", "-", "02", " ", "15", ":", "04", ":", "05">>,
       <<"2006", "-", "01", "-", "02", " ", "15", ":", "04">>,
       <<"15", ":", "04", ":", "05", "-07">>,
       <<"15", ":", "04", ":", "05">>,
       <<"2006", "-", "01", "-", "02">> >>

\* time.RFC3339Nano is "2006-01-02T15:04:05.999999999Z07:00"

isLeap(y) == y % 4 = 0 /\ (y % 100 # 0 \/ y % 400 = 0)

daysIn(m, y) ==
    IF m = 2 THEN (IF isLeap(y) THEN 29 ELSE 28)
    ELSE IF m \in {4, 6, 9, 11} THEN 30 ELSE 31

RECURSIVE Pow10(_)
Pow10(k) == IF k = 0 THEN 1 ELSE 10 * Pow10(k - 1)

RECURSIVE cutspace(_)
cutspace(s) == IF Len(s) > 0 /\ s[1] = " " THEN cutspace(Tail(s)) ELSE s

\* time.getnum: one or two digits ("fixed": exactly two)
getnum(s, fixed) ==
    IF Len(s) = 0 \/ ~isDigit(s[1]) THEN [ok |-> FALSE, n |-> 0, rest |-> s]
    ELSE IF Len(s) < 2 \/ ~isDigit(s[2])
    THEN IF fixed THEN [ok |-> FALSE, n |-> 0, rest |-> s]
         ELSE [ok |-> TRUE, n |-> digitVal(s[1]), rest |-> Tail(s)]
    ELSE [ok |-> TRUE, n |-> 10 * digitVal(s[1]) + digitVal(s[2]),
          rest |-> SubSeq(s, 3, Len(s))]

\* the run of digits at the head of s
RECURSIVE leadingDigits(_)
leadingDigits(s) ==
    IF Len(s) > 0 /\ isDigit(s[1]) THEN <<s[1]>> \o leadingDigits(Tail(s)) ELSE <<>>

Bad(t) == [ok |-> FALSE, t |-> t]

\* time.Parse from chunk i of the layout on: f holds the fields read so far
\* (month and day -1 until read, off -1 while no zone has been read)
RECURSIVE parseFrom(_, _, _, _)
parseFrom(lay, i, value, f) ==
    IF i > Len(lay)
    THEN IF Len(value) > 0 THEN Bad(f)                        \* extra text
         ELSE LET m == IF f.M < 0 THEN 1 ELSE f.M
                  d == IF f.D < 0 THEN 1 ELSE f.D
              IN  IF d < 1 \/ d > daysIn(m, f.Y) THEN Bad(f)  \* day out of range
                  ELSE [ok |-> TRUE,
                        t |-> Time(f.Y, m, d, f.h, f.mi, f.s, f.ns,
                                   IF f.off = -1 THEN 0 ELSE f.off)]
    ELSE LET c == lay[i]
         IN  CASE c = "2006" ->
                    IF Len(value) < 4 \/ \E j \in 1..4 : ~isDigit(value[j]) THEN Bad(f)
                    ELSE parseFrom(lay, i + 1, SubSeq(value, 5, Len(value)),
                                   [f EXCEPT !.Y = digitsToNat(SubSeq(value, 1, 4))])
               [] c = "01" ->
                    LET g == getnum(value, TRUE)
                    IN  IF ~g.ok \/ g.n <= 0 \/ 12 < g.n THEN Bad(f)
                        ELSE parseFrom(lay, i + 1, g.rest, [f EXCEPT !.M = g.n])
               [] c = "02" ->
                    LET g == getnum(value, TRUE)
                    IN  IF ~g.ok THEN Bad(f)
                        ELSE parseFrom(lay, i + 1, g.rest, [f EXCEPT !.D = g.n])
               [] c = "15" ->
                    LET g == getnum(value, FALSE)
                    IN  IF ~g.ok \/ 24 <= g.n THEN Bad(f)
                        ELSE parseFrom(lay, i + 1, g.rest, [f EXCEPT !.h = g.n])
               [] c = "04" ->
                    LET g == getnum(value, TRUE)
                    IN  IF ~g.ok \/ 60 <= g.n THEN Bad(f)
                        ELSE parseFrom(lay, i + 1, g.rest, [f EXCEPT !.mi = g.n])
               [] c = "05" ->
                    LET g == getnum(value, TRUE)
                    IN  IF ~g.ok \/ 60 <= g.n THEN Bad(f)
                        ELSE IF /\ Len(g.rest) >= 2
                                /\ g.rest[1] \in {".", ","}
                                /\ isDigit(g.rest[2])
                        \* a fractional second in the input and none in the layout
                        THEN LET ds == leadingDigits(Tail(g.rest))
                                 d9 == SubSeq(ds, 1, IF Len(ds) > 9 THEN 9 ELSE Len(ds))
                             IN  parseFrom(lay, i + 1,
                                           SubSeq(g.rest, Len(ds) + 2, Len(g.rest)),
                                           [f EXCEPT !.s = g.n,
                                                     !.ns = digitsToNat(d9) * Pow10(9 - Len(d9))])
                        ELSE parseFrom(lay, i + 1, g.rest, [f EXCEPT !.s = g.n])
               [] c = "-07" ->
                    IF Len(value) < 3 THEN Bad(f)
                    ELSE LET g == getnum(SubSeq(value, 2, 3), TRUE)
                         IN  IF ~g.ok \/ g.n > 24 \/ value[1] \notin {"+", "-"} THEN Bad(f)
                             ELSE parseFrom(lay, i + 1, SubSeq(value, 4, Len(value)),
                                            [f EXCEPT !.off = IF value[1] = "-"
                                                               THEN 0 - g.n * 3600
                                                               ELSE g.n * 3600])
               [] c = " " ->
                    \* time.skip: a space of the layout stands for any run of spaces
                    IF Len(value) > 0 /\ value[1] # " " THEN Bad(f)
                    ELSE parseFrom(lay, i + 1, cutspace(value), f)
               [] OTHER ->
                    IF Len(value) = 0 \/ value[1] # c THEN Bad(f)
                    ELSE parseFrom(lay, i + 1, Tail(value), f)

\* time.Parse(layout, value): [ok, t]; t is time.Time{} when the parse fails
timeParse(lay, value) ==
    Let(parseFrom(lay, 1, value, Time(0, -1, -1, 0, 0, 0, 0, -1)),
        LAMBDA r : IF r.ok THEN r ELSE [ok |-> FALSE, t |-> ZeroTime])

\* the digits of n, zero-padded on the left to w digits
zeroPad(n, w) ==
    LET ds == natDigits(n)
    IN  [i \in 1..(w - Len(ds)) |-> "0"] \o ds

RECURSIVE trimZerosRight(_)
trimZerosRight(s) ==
    IF Len(s) > 0 /\ s[Len(s)] = "0" THEN trimZerosRight(SubSeq(s, 1, Len(s) - 1)) ELSE s

\* t.Format(time.RFC3339Nano)
formatRFC3339Nano(t) ==
    LET frac == trimZerosRight(zeroPad(t.ns, 9))
        a    == Abs(t.off)
    IN  zeroPad(t.Y, 4) \o <<"-">> \o zeroPad(t.M, 2) \o <<"-">> \o zeroPad(t.D, 2)
        \o <<"T">> \o zeroPad(t.h, 2) \o <<":">> \o zeroPad(t.mi, 2)
        \o <<":">> \o zeroPad(t.s, 2)
        \o (IF Len(frac) = 0 THEN <<>> ELSE <<".">> \o frac)
        \o (IF t.off = 0 THEN <<"Z">>
            ELSE <<IF t.off < 0 THEN "-" ELSE "+">> \o zeroPad(a \div 3600, 2)
                 \o <<":">> \o zeroPad((a % 3600) \div 60, 2))

\* parseTime(s, &k.t): [t |-> *t afterwards, err]; t0 is *t before
RECURSIVE tryFormats(_, _, _)
tryFormats(i, s, t0) ==
    IF i > Len(timeFormats) THEN [t |-> t0, err |-> "error"]
    ELSE Let(timeParse(timeFormats[i], s),
             LAMBDA r : IF r.ok THEN [t |-> r.t, err |-> "nil"]
                        ELSE tryFormats(i + 1, s, r.t))

parseTime(s, t0) ==
    IF Len(s) < 2 THEN [t |-> t0, err |-> "panic"]       \* s[len(s)-2] out of range
    ELSE tryFormats(1, IF s[Len(s) - 1] = "." THEN s \o <<"0">> ELSE s, t0)

(***************************************************************************)
(* pgTimestamp                                                             *)
(***************************************************************************)
newTimestamp == [t |-> "pgTimestamp", tm |-> ZeroTime, valid |-> FALSE]

pgTimestamp_Scan(k, x) ==
    IF x.k = "nil" THEN Out([k EXCEPT !.valid = FALSE], "nil")
    ELSE LET k1 == [k EXCEPT !.valid = TRUE]
         IN  CASE x.k = "time" -> Out([k1 EXCEPT !.tm = x.v], "nil")
               [] x.k \in {"string", "bytes"} ->
                    Let(parseTime(x.v, k.tm), LAMBDA p : Out([k1 EXCEPT !.tm = p.t], p.err))
               [] OTHER -> Out(k1, "error")

pgTimestamp_bytes(k) == IF ~k.valid THEN nullBytes ELSE formatRFC3339Nano(k.tm)

pgTimestamp_String(k) == IF ~k.valid THEN <<>> ELSE formatRFC3339Nano(k.tm)

pgTimestamp_Val(k) == IF ~k.valid THEN Nil ELSE NTime(k.tm)

(***************************************************************************)
(* bytes.Replace(s, old, new, -1), escape, srcToBytes and split.           *)
(***************************************************************************)
\* bytes.Replace(s, old, new, 1): only the first occurrence
Replace_first(s, old, new) ==
    IF \E i \in 1..(Len(s) - Len(old) + 1) : SubSeq(s, i, i + Len(old) - 1) = old
    THEN LET i == CHOOSE i \in 1..(Len(s) - Len(old) + 1) :
                      /\ SubSeq(s, i, i + Len(old) - 1) = old
                      /\ \A j \in 1..(i - 1) : SubSeq(s, j, j + Len(old) - 1) # old
         IN  SubSeq(s, 1, i - 1) \o new \o SubSeq(s, i + Len(old), Len(s))
    ELSE s

RECURSIVE Replace(_, _, _)
Replace(s, old, new) ==
    IF Len(s) < Len(old) THEN s
    ELSE IF SubSeq(s, 1, Len(old)) = old
    THEN new \o Replace(SubSeq(s, Len(old) + 1, Len(s)), old, new)
    ELSE <<s[1]>> \o Replace(Tail(s), old, new)

\* quote a byte string: t = 0 none, 1 = \" (array style), 2 = "" (row style)
escape(s, t) ==
    IF t = 0 THEN s
    ELSE LET s1 == Replace(s, <<"\\">>, <<"\\", "\\">>)
         IN  CASE t = 1 -> Replace(s1, <<"\"">>, <<"\\", "\"">>)
               [] t = 2 -> Replace(s1, <<"\"">>, <<"\"", "\"">>)
               [] OTHER -> s1

srcToBytes(x) ==
    IF x.k \in {"string", "bytes"} THEN [b |-> x.v, err |-> "nil"]
    ELSE [b |-> <<>>, err |-> "error"]

\* split with z = i - 1 at the closing brace of a bracketed element too
splitPart_cutBrace(s, mode, a, z) ==
    LET p0 == SubSeq(s, a + 1, IF s[z + 1] = "}" THEN z ELSE z + 1)
        p1 == Replace(p0, <<"\\", "\\">>, <<"\\">>)
        p2 == IF mode = "}" THEN Replace(p1, <<"\\", "\"">>, <<"\"">>)
              ELSE IF mode = ")" THEN Replace(p1, <<"\"", "\"">>, <<"\"">>)
              ELSE p1
    IN  IF Len(p2) >= 2 /\ p2[1] = "\\" /\ p2[2] = "x"
        THEN hexDecode(SubSeq(p2, 3, Len(p2)))
        ELSE p2

\* the unescaping and hex decoding split applies to the part s[a : z+1]
splitPart(s, mode, a, z) ==
    LET p0 == SubSeq(s, a + 1, z + 1)
        p1 == Replace(p0, <<"\\", "\\">>, <<"\\">>)
        p2 == IF mode = "}" THEN Replace(p1, <<"\\", "\"">>, <<"\"">>)
              ELSE IF mode = ")" THEN Replace(p1, <<"\"", "\"">>, <<"\"">>)
              ELSE p1
    IN  IF Len(p2) >= 2 /\ p2[1] = "\\" /\ p2[2] = "x"
        THEN hexDecode(SubSeq(p2, 3, Len(p2)))
        ELSE p2

\* one turn of split's loop, at index i (from 0) with the loop's variables in
\* st; st.err is "error" when the loop returns an error
splitStep(s, i, st) ==
    LET b  == s[i + 1]
    IN  Let(
          CASE i = 0 ->
                 IF b = "{" THEN [st EXCEPT !.mode = "}"]
                 ELSE IF b = "(" THEN [st EXCEPT !.mode = ")"]
                 ELSE [st EXCEPT !.err = "error"]
            [] i # 0 /\ st.a = -1 ->
                 IF b = " " \/ b = "," THEN st
                 ELSE IF b = "{"
                 THEN [st EXCEPT !.a = i, !.dep = st.dep + 1, !.closer = "}"]
                 ELSE IF b = "\"" THEN [st EXCEPT !.a = i + 1, !.closer = "\""]
                 ELSE [st EXCEPT !.a = i, !.closer = ","]
            [] i # 0 /\ st.a # -1 /\ i = Len(s) - 1 ->
                 IF b # st.mode THEN [st EXCEPT !.err = "error"]
                 ELSE [st EXCEPT !.z = i - 1]
            [] OTHER ->
                 IF ~st.ignore /\ st.mode = "}" /\ b = "\\"
                 THEN [st EXCEPT !.ignore = TRUE]
                 ELSE IF ~st.ignore /\ st.mode = ")" /\ b = "\"" /\ s[i + 2] = "\""
                 THEN [st EXCEPT !.ignore = TRUE]
                 ELSE IF st.ignore THEN [st EXCEPT !.ignore = FALSE]
                 ELSE IF st.closer = "}" /\ (b = "{" \/ b = "}")
                 THEN IF b = "{" THEN [st EXCEPT !.dep = st.dep + 1]
                      ELSE IF st.dep - 1 = 0
                      THEN [st EXCEPT !.dep = st.dep - 1, !.z = i]
                      ELSE [st EXCEPT !.dep = st.dep - 1]
                 ELSE IF st.closer = "\"" /\ b = st.closer THEN [st EXCEPT !.z = i - 1]
                 ELSE IF st.closer = "," /\ b = st.closer THEN [st EXCEPT !.z = i - 1]
                 ELSE st,
          LAMBDA s1 :
            IF s1.err = "nil" /\ s1.z # -1
            THEN [s1 EXCEPT !.parts = Append(s1.parts, splitPart(s, s1.mode, s1.a, s1.z)),
                            !.a = -1, !.z = -1, !.dep = 0]
            ELSE s1)

RECURSIVE splitLoop(_, _, _)
splitLoop(s, i, st) ==
    IF i >= Len(s) \/ st.err # "nil" THEN st
    ELSE splitLoop(s, i + 1, splitStep(s, i, st))

\* split(s): [parts, err]
split(s) ==
    Let(splitLoop(s, 0, [parts |-> <<>>, ignore |-> FALSE, dep |-> 0,
                         mode |-> "", closer |-> "", a |-> -1, z |-> -1,
                         err |-> "nil"]),
        LAMBDA st : IF st.err # "nil" THEN [parts |-> <<>>, err |-> "error"]
                    ELSE [parts |-> st.parts, err |-> "nil"])

(***************************************************************************)
(* parseHStore: the "key" => "value" state machine of pgHStore.            *)
(***************************************************************************)
\* a Go map: a function from keys to values; the empty map is <<>>
MapPut(m, key, v) == [x \in (DOMAIN m) \cup {key} |-> IF x = key THEN v ELSE m[x]]

\* one turn of parseHStore's loop at index i (from 0); the turn after is at
\* st.i + 1.  st.err is "panic" when an index is out of range.
hstoreStep(s, i, st) ==
    LET b  == s[i + 1]
        at(j) == IF j < Len(s) THEN s[j + 1] ELSE ""
    IN  Let(
          CASE b = "\\" -> [st EXCEPT !.i = i + 1]
            [] b # "\\" /\ st.st = 0 ->
                 IF b = "\"" THEN [st EXCEPT !.i = i, !.ka = i + 1, !.st = 1]
                 ELSE [st EXCEPT !.i = i]
            [] b # "\\" /\ st.st = 1 ->
                 IF b = "\"" THEN [st EXCEPT !.i = i, !.kz = i - 1, !.st = 2]
                 ELSE [st EXCEPT !.i = i]
            [] b # "\\" /\ st.st = 2 ->
                 IF b = "N" /\ i + 1 >= Len(s) THEN [st EXCEPT !.err = "panic"]
                 ELSE IF b = "N" /\ at(i + 1) = "U" /\ i + 2 >= Len(s)
                 THEN [st EXCEPT !.err = "panic"]
                 ELSE IF b = "N" /\ at(i + 1) = "U" /\ at(i + 2) = "L" /\ i + 3 >= Len(s)
                 THEN [st EXCEPT !.err = "panic"]
                 ELSE IF b = "N" /\ at(i + 1) = "U" /\ at(i + 2) = "L" /\ at(i + 3) = "L"
                 THEN [st EXCEPT !.i = i, !.va = i, !.vz = i + 3, !.st = 0]
                 ELSE IF b = "\"" THEN [st EXCEPT !.i = i, !.va = i + 1, !.st = 3]
                 ELSE [st EXCEPT !.i = i]
            [] OTHER ->
                 IF b = "\"" THEN [st EXCEPT !.i = i, !.vz = i - 1, !.st = 0]
                 ELSE [st EXCEPT !.i = i],
          LAMBDA s1 :
            IF s1.err = "nil" /\ s1.kz # -1 /\ s1.vz # -1
            THEN LET k0 == SubSeq(s, s1.ka + 1, s1.kz + 1)
                     v0 == SubSeq(s, s1.va + 1, s1.vz + 1)
                     k2 == Replace(Replace(k0, <<"\\", "\\">>, <<"\\">>), <<"\\", "\"">>, <<"\"">>)
                     v2 == Replace(Replace(v0, <<"\\", "\\">>, <<"\\">>), <<"\\", "\"">>, <<"\"">>)
                 IN  [s1 EXCEPT !.m = IF v0 = nullBytes THEN s1.m ELSE MapPut(s1.m, k2, v2),
                                !.ka = -1, !.kz = -1, !.va = -1, !.vz = -1]
            ELSE s1)

RECURSIVE hstoreLoop(_, _, _)
hstoreLoop(s, i, st) ==
    IF i >= Len(s) \/ st.err # "nil" THEN st
    ELSE Let(hstoreStep(s, i, st), LAMBDA s1 : hstoreLoop(s, s1.i + 1, s1))

\* parseHStore(s): [m, err]
parseHStore(s) ==
    Let(hstoreLoop(s, 0, [m |-> <<>>, st |-> 0, i |-> 0, ka |-> -1, kz |-> -1,
                          va |-> -1, vz |-> -1, err |-> "nil"]),
        LAMBDA st : [m |-> st.m, err |-> st.err])

(***************************************************************************)
(* ToValue constructors.  A ToValue is the record of its name and captured *)
(* parameters; New(d) is the object it allocates, Call(d, data) the call   *)
(* d(data): the object after Scan(data), and the error.                    *)
(***************************************************************************)
SmallInt  == [c |-> "SmallInt"]
Integer   == [c |-> "Integer"]
BigInt    == [c |-> "BigInt"]
Real      == [c |-> "Real"]
Double    == [c |-> "Double"]
Bool      == [c |-> "Bool"]
Bytes     == [c |-> "Bytes"]
Text      == [c |-> "Text"]
Timestamp == [c |-> "Timestamp"]
HStore    == [c |-> "HStore"]
VarChar(n)           == [c |-> "VarChar", n |-> n]
Char(n)              == [c |-> "Char", n |-> n]
Numeric(prec, scale) == [c |-> "Numeric", prec |-> prec, scale |-> scale]
Enum(labels)         == [c |-> "Enum", labels |-> labels]
Array(el)            == [c |-> "Array", el |-> el]
Row(ks)              == [c |-> "Row", ks |-> ks]
Col(name, k)         == [name |-> name, k |-> k]
Record(cols)         == [c |-> "Record", cols |-> cols]

RECURSIVE New(_)
RECURSIVE Scan(_, _)
RECURSIVE Val(_)
RECURSIVE BytesOf(_)

Call(d, data) == Scan(New(d), data)

New(d) ==
    CASE d.c = "SmallInt"  -> newInt(16)
      [] d.c = "Integer"   -> newInt(32)
      [] d.c = "BigInt"    -> newInt(64)
      [] d.c = "Real"      -> newFloat(32)
      [] d.c = "Double"    -> newFloat(64)
      [] d.c = "Bool"      -> newBool
      [] d.c = "Bytes"     -> newBytea
      [] d.c = "Text"      -> newText(0, FALSE)
      [] d.c = "VarChar"   -> newText(d.n, FALSE)
      [] d.c = "Char"      -> newText(d.n, TRUE)
      [] d.c = "Numeric"   -> newNumeric(d.prec, d.scale)
      [] d.c = "Timestamp" -> newTimestamp
      [] d.c = "Enum"      -> newEnum(d.labels)
      [] d.c = "HStore"    -> [t |-> "pgHStore", m |-> <<>>, valid |-> FALSE]
      [] d.c = "Array"     -> [t |-> "pgArray", vs |-> <<>>, el |-> d.el, valid |-> FALSE]
      [] d.c \in {"Row", "Record"} ->
           \* k.vs = append(k.vs, kx(nil)) for every child constructor kx
           Let(IF d.c = "Row" THEN d.ks ELSE [i \in 1..Len(d.cols) |-> d.cols[i].k],
               LAMBDA ks :
                 Let([i \in 1..Len(ks) |-> Call(ks[i], Nil).k],
                     LAMBDA vs :
                       IF d.c = "Row" THEN [t |-> "pgRow", vs |-> vs, valid |-> FALSE]
                       ELSE [t |-> "pgRecord", vs |-> vs, cs |-> d.cols, valid |-> FALSE]))

(***************************************************************************)
(* pgArray                                                                 *)
(***************************************************************************)
pgArray_Append(k, x) ==
    IF x.k = "value"
    THEN Out([k EXCEPT !.vs = Append(k.vs, x.v), !.valid = TRUE], "nil")
    ELSE Let(Call(k.el, Nil).k,
             LAMBDA vx :
               Let(Scan(vx, x),
                   LAMBDA r :
                     IF r.err # "nil" THEN Out(k, r.err)
                     ELSE Out([k EXCEPT !.vs = Append(k.vs, r.k), !.valid = TRUE], "nil")))

\* for _, d := range xs { err = k.Append(d); if err != nil { return err } }
RECURSIVE appendAll(_, _, _)
appendAll(k, xs, i) ==
    IF i > Len(xs) THEN Out(k, "nil")
    ELSE Let(pgArray_Append(k, xs[i]),
             LAMBDA r : IF r.err # "nil" THEN r ELSE appendAll(r.k, xs, i + 1))

pgArray_Scan(k, x) ==
    LET k0 == [k EXCEPT !.vs = <<>>]
    IN  IF x.k = "nil" THEN Out([k0 EXCEPT !.valid = FALSE], "nil")
        ELSE LET k1 == [k0 EXCEPT !.valid = TRUE]
             IN  IF x.k = "list" THEN appendAll(k1, x.v, 1)
                 ELSE LET b == srcToBytes(x)
                      IN  IF b.err # "nil" THEN Out(k1, b.err)
                          ELSE Let(split(b.b),
                                   LAMBDA p :
                                     IF p.err # "nil" THEN Out(k1, p.err)
                                     ELSE appendAll(k1, [i \in 1..Len(p.parts) |->
                                                           NBytes(p.parts[i])], 1))

(***************************************************************************)
(* pgRow and pgRecord                                                      *)
(***************************************************************************)
\* an Append that takes the value as one more child
pgRow_Append_grow(k, x) == Out([k EXCEPT !.vs = Append(k.vs, Call(Text, x).k)], "nil")

\* return fmt.Errorf("Cannot append to Row as it already has %d (max) cols", ...)
pgRow_Append(k, x) == Out(k, "error")

\* return fmt.Errorf("Cannot append more than %d Values to record", ...)
pgRecord_Append(k, x) == Out(k, "error")

\* for i, vx := range dests { err := vx.Scan(xs[i]); if err != nil { return err } }
RECURSIVE scanEach(_, _, _)
scanEach(dests, xs, i) ==
    IF i > Len(dests) THEN [vs |-> dests, err |-> "nil"]
    ELSE Let(Scan(dests[i], xs[i]),
             LAMBDA r :
               IF r.err # "nil" THEN [vs |-> [dests EXCEPT ![i] = r.k], err |-> r.err]
               ELSE scanEach([dests EXCEPT ![i] = r.k], xs, i + 1))

\* rowScanner that only refuses an input with too few elements
rowScanner_atLeast(x, dests) ==
    IF x.k = "nil" THEN [vs |-> dests, err |-> "panic"]
    ELSE IF x.k = "list"
    THEN IF Len(dests) > Len(x.v) THEN [vs |-> dests, err |-> "error"]
         ELSE scanEach(dests, x.v, 1)
    ELSE LET b == srcToBytes(x)
         IN  IF b.err # "nil" THEN [vs |-> dests, err |-> b.err]
             ELSE Let(split(b.b),
                      LAMBDA p :
                        IF p.err # "nil" THEN [vs |-> dests, err |-> p.err]
                        ELSE IF Len(p.parts) < Len(dests) THEN [vs |-> dests, err |-> "error"]
                        ELSE scanEach(dests, [i \in 1..Len(p.parts) |->
                                                NBytes(p.parts[i])], 1))

\* rowScanner(src, dests): [vs |-> dests afterwards, err]
rowScanner(x, dests) ==
    IF x.k = "nil" THEN [vs |-> dests, err |-> "panic"]
    ELSE IF x.k = "list"
    THEN IF Len(dests) # Len(x.v) THEN [vs |-> dests, err |-> "error"]
         ELSE scanEach(dests, x.v, 1)
    ELSE LET b == srcToBytes(x)
         IN  IF b.err # "nil" THEN [vs |-> dests, err |-> b.err]
             ELSE Let(split(b.b),
                      LAMBDA p :
                        IF p.err # "nil" THEN [vs |-> dests, err |-> p.err]
                        ELSE IF Len(p.parts) # Len(dests) THEN [vs |-> dests, err |-> "error"]
                        ELSE scanEach(dests, [i \in 1..Len(p.parts) |->
                                                NBytes(p.parts[i])], 1))

pgRow_Scan(k, x) ==
    IF x.k = "nil" THEN Out([k EXCEPT !.valid = FALSE], "nil")
    ELSE Let(rowScanner(x, k.vs),
             LAMBDA r : Out([k EXCEPT !.valid = TRUE, !.vs = r.vs], r.err))

pgRecord_Scan(k, x) ==
    IF x.k = "nil" THEN Out([k EXCEPT !.valid = FALSE], "nil")
    ELSE Let(rowScanner(x, k.vs),
             LAMBDA r : Out([k EXCEPT !.valid = TRUE, !.vs = r.vs], r.err))

(***************************************************************************)
(* pgHStore                                                                *)
(***************************************************************************)
pgHStore_Scan(k, x) ==
    LET k0 == [k EXCEPT !.m = <<>>]
    IN  IF x.k = "nil" THEN Out([k0 EXCEPT !.valid = FALSE], "nil")
        ELSE LET k1 == [k0 EXCEPT !.valid = TRUE]
             IN  Let(IF x.k = "bytes" THEN parseHStore(x.v)
                     ELSE IF x.k = "map" THEN [m |-> x.v, err |-> "nil"]
                     ELSE [m |-> <<>>, err |-> "error"],
                     LAMBDA p :
                       IF p.err # "nil" THEN Out(k1, p.err)
                       ELSE Out([k1 EXCEPT !.m = [key \in DOMAIN p.m |->
                                                     Call(Text, NStr(p.m[key])).k]], "nil"))

(***************************************************************************)
(* The Value interface: Scan, IsNull, Val, String, bytes.                  *)
(***************************************************************************)
Scan(v, x) ==
    CASE v.t = "pgInteger"   -> pgInteger_Scan(v, x)
      [] v.t = "pgFloat"     -> pgFloat_Scan(v, x)
      [] v.t = "pgBool"      -> pgBool_Scan(v, x)
      [] v.t = "pgText"      -> pgText_Scan(v, x)
      [] v.t = "pgBytea"     -> pgBytea_Scan(v, x)
      [] v.t = "pgNumeric"   -> pgNumeric_Scan(v, x)
      [] v.t = "pgTimestamp" -> pgTimestamp_Scan(v, x)
      [] v.t = "pgEnum"      -> pgEnum_Scan(v, x)
      [] v.t = "pgArray"     -> pgArray_Scan(v, x)
      [] v.t = "pgRow"       -> pgRow_Scan(v, x)
      [] v.t = "pgRecord"    -> pgRecord_Scan(v, x)
      [] v.t = "pgHStore"    -> pgHStore_Scan(v, x)

\* v.Append(x) for the composites that have the method
AppendTo(v, x) ==
    CASE v.t = "pgArray"  -> pgArray_Append(v, x)
      [] v.t = "pgRow"    -> pgRow_Append(v, x)
      [] v.t = "pgRecord" -> pgRecord_Append(v, x)

IsNull(v) == ~v.valid

\* the value a failed type assertion leaves in place of a result
Panic == [k |-> "panic", v |-> <<>>]

Val(v) ==
    CASE v.t = "pgInteger"   -> pgInteger_Val(v)
      [] v.t = "pgFloat"     -> pgFloat_Val(v)
      [] v.t = "pgBool"      -> pgBool_Val(v)
      [] v.t = "pgText"      -> pgText_Val(v)
      [] v.t = "pgBytea"     -> pgBytea_Val(v)
      [] v.t = "pgNumeric"   -> pgNumeric_Val(v)
      [] v.t = "pgTimestamp" -> pgTimestamp_Val(v)
      [] v.t = "pgEnum"      -> pgEnum_Val(v)
      [] v.t \in {"pgArray", "pgRow", "pgRecord"} ->
           IF ~v.valid THEN Nil
           ELSE NList([i \in 1..Len(v.vs) |-> Val(v.vs[i])])
      [] v.t = "pgHStore" ->
           IF ~v.valid THEN Nil
           ELSE IF \E key \in DOMAIN v.m : Val(v.m[key]).k # "string" THEN Panic
           ELSE NMap([key \in DOMAIN v.m |-> Val(v.m[key]).v])

\* every ordering of the set S: the orders in which Go may range over a map
Perms(S) ==
    {p \in [1..Cardinality(S) -> S] : \A i, j \in DOMAIN p : p[i] = p[j] => i = j}

\* bytes.Join(parts, sep)
RECURSIVE Join(_, _)
Join(parts, sep) ==
    IF Len(parts) = 0 THEN <<>>
    ELSE IF Len(parts) = 1 THEN parts[1]
    ELSE parts[1] \o sep \o Join(Tail(parts), sep)

\* the children of a composite as pgArray.bytes / rowBytes write them: bare
\* for the types listed in the type switch, else quoted and escaped
bareInArray_quoteInteger(child) ==
    child.t \in {"pgNumeric", "pgFloat", "pgBool", "pgArray", "pgTimestamp"}

bareInArray(child) ==
    child.t \in {"pgNumeric", "pgInteger", "pgFloat", "pgBool", "pgArray", "pgTimestamp"}

bareInRow_quoteBool(child) == child.t \in {"pgNumeric", "pgInteger", "pgFloat"}

bareInRow(child) == child.t \in {"pgNumeric", "pgInteger", "pgFloat", "pgBool"}

childBytes(cb, bare, dialect) ==
    IF bare THEN cb ELSE <<"\"">> \o escape(cb, dialect) \o <<"\"">>

\* the sequences of encodings of the children vs[i..]: one for each choice of
\* an encoding of each child
RECURSIVE childrenBytes(_, _, _)
childrenBytes(vs, i, inArray) ==
    IF i > Len(vs) THEN {<<>>}
    ELSE {<<childBytes(cb, IF inArray THEN bareInArray(vs[i]) ELSE bareInRow(vs[i]),
                       IF inArray THEN 1 ELSE 2)>> \o rest :
              cb \in BytesOf(vs[i]), rest \in childrenBytes(vs, i + 1, inArray)}

\* fmt.Sprintf(`"%s" => "%s"`, key, val) for val a *pgText
hstorePair(key, val) ==
    <<"\"">> \o key \o <<"\"", " ", "=", ">", " ", "\"">> \o pgText_String(val) \o <<"\"">>

\* pgHStore.bytes: the pairs in the order the map is ranged over; k.valid is
\* not read
pgHStore_bytes(k) ==
    {Join([i \in 1..Len(p) |-> hstorePair(p[i], k.m[p[i]])], <<",">>) :
         p \in Perms(DOMAIN k.m)}

pgArray_bytes(k) ==
    IF ~k.valid THEN {nullBytes}
    ELSE {<<"{">> \o Join(cs, <<",">>) \o <<"}">> : cs \in childrenBytes(k.vs, 1, TRUE)}

rowBytes(valid, vs) ==
    IF ~valid THEN {nullBytes}
    ELSE {<<"(">> \o Join(cs, <<",">>) \o <<")">> : cs \in childrenBytes(vs, 1, FALSE)}

\* v.bytes(): the set of the byte strings the call can return (one, except
\* where a map's iteration order shows)
BytesOf(v) ==
    CASE v.t = "pgInteger"   -> {pgInteger_bytes(v)}
      [] v.t = "pgFloat"     -> {pgFloat_bytes(v)}
      [] v.t = "pgBool"      -> {pgBool_bytes(v)}
      [] v.t = "pgText"      -> {pgText_bytes(v)}
      [] v.t = "pgBytea"     -> {pgBytea_bytes(v)}
      [] v.t = "pgNumeric"   -> {pgNumeric_bytes(v)}
      [] v.t = "pgTimestamp" -> {pgTimestamp_bytes(v)}
      [] v.t = "pgEnum"      -> {pgEnum_bytes(v)}
      [] v.t = "pgArray"     -> pgArray_bytes(v)
      [] v.t \in {"pgRow", "pgRecord"} -> rowBytes(v.valid, v.vs)
      [] v.t = "pgHStore"    -> pgHStore_bytes(v)

\* v.String(): the set of the strings the call can return
StringOf(v) ==
    CASE v.t = "pgInteger"   -> {pgInteger_String(v)}
      [] v.t = "pgFloat"     -> {pgFloat_String(v)}
      [] v.t = "pgBool"      -> {pgBool_String(v)}
      [] v.t = "pgText"      -> {pgText_String(v)}
      [] v.t = "pgBytea"     -> {pgBytea_String(v)}
      [] v.t = "pgNumeric"   -> {pgNumeric_String(v)}
      [] v.t = "pgTimestamp" -> {pgTimestamp_String(v)}
      [] v.t = "pgEnum"      -> {pgEnum_String(v)}
      [] OTHER               -> IF ~v.valid THEN {<<>>} ELSE BytesOf(v)

(***************************************************************************)
(* MapValue: ValueBy, Get and Set of pgRecord and pgHStore.                *)
(***************************************************************************)
\* the nil Value (a Value interface holding nothing)
NilValue == [t |-> "nil"]

\* the lookup that takes the first child, whatever the name
pgRecord_ValueBy_first(k, name) == k.vs[1]

pgRecord_ValueBy(k, name) ==
    IF \E i \in 1..Len(k.cs) : k.cs[i].name = name
    THEN k.vs[CHOOSE i \in 1..Len(k.cs) :
                  /\ k.cs[i].name = name
                  /\ \A j \in 1..(i - 1) : k.cs[j].name # name]
    ELSE NilValue

\* panic(fmt.Sprintf("No column %s", name)) when the column is not found
pgRecord_Get(k, name) ==
    Let(pgRecord_ValueBy(k, name),
        LAMBDA v : IF v = NilValue THEN Panic ELSE Val(v))

pgRecord_Set(k, name, x) ==
    IF pgRecord_ValueBy(k, name) = NilValue THEN Out(k, "error")
    ELSE Let(CHOOSE i \in 1..Len(k.cs) :
                 /\ k.cs[i].name = name
                 /\ \A j \in 1..(i - 1) : k.cs[j].name # name,
             LAMBDA i :
               Let(Scan(k.vs[i], x),
                   LAMBDA r : Out([k EXCEPT !.vs[i] = r.k], r.err)))

pgHStore_ValueBy(k, name) ==
    IF name \in DOMAIN k.m THEN k.m[name] ELSE NilValue

\* k.ValueBy(name).Val(): a method call on a nil interface panics
pgHStore_Get(k, name) ==
    Let(pgHStore_ValueBy(k, name),
        LAMBDA v : IF v = NilValue THEN Panic ELSE Val(v))

\* k.ValueBy(name).Scan(src)
pgHStore_Set(k, name, x) ==
    IF pgHStore_ValueBy(k, name) = NilValue THEN Out(k, "panic")
    ELSE Let(Scan(k.m[name], x),
             LAMBDA r : Out([k EXCEPT !.m[name] = r.k], r.err))

ValueBy(v, name) ==
    IF v.t = "pgRecord" THEN pgRecord_ValueBy(v, name) ELSE pgHStore_ValueBy(v, name)

Get(v, name) ==
    IF v.t = "pgRecord" THEN pgRecord_Get(v, name) ELSE pgHStore_Get(v, name)

Set(v, name, x) ==
    IF v.t = "pgRecord" THEN pgRecord_Set(v, name, x) ELSE pgHStore_Set(v, name, x)

(***************************************************************************)
(* The values a caller hands to Scan.                                      *)
(***************************************************************************)
\* the longest text input, the longest array literal, the widest Char(n)
MaxLen == 2
MaxArr == 3
MaxCharN == 3

\* every byte string of at most n bytes of A
Strs(A, n) == UNION {[1..m -> A] : m \in 0..n}

\* as a string and as a []byte
Both(S) == {NStr(x) : x \in S} \cup {NBytes(x) : x \in S}

One == I64(FALSE, <<1>>)

\* the integers around the bounds of each width
IntMags ==
    {<<0>>, <<1>>, <<3, 2, 7, 6, 6>>, <<3, 2, 7, 6, 7>>, <<3, 2, 7, 6, 8>>,
     <<4, 0, 0, 0, 0>>, <<2, 1, 4, 7, 4, 8, 3, 6, 4, 6>>,
     <<2, 1, 4, 7, 4, 8, 3, 6, 4, 7>>, <<2, 1, 4, 7, 4, 8, 3, 6, 4, 8>>, MaxInt64.mag}

IntValues ==
    {I64(FALSE, m) : m \in IntMags} \cup {I64(TRUE, m) : m \in IntMags \ {<<0>>}}

IntInputs ==
    {NInt(n) : n \in IntValues}
    \cup {NInt64(MaxInt16), NInt64(MaxInt32), NUint(One), NUint(MaxInt16), NUint(MaxInt64)}
    \cup {NStr(FormatInt(n)) : n \in IntValues}
    \cup {NBytes(FormatInt(n)) : n \in {One, MaxInt16, MaxInt32}}
    \cup {NStr(x) : x \in {<<"+", "7">>, <<"0", "0", "7">>, <<"-">>, <<"7", "a">>, <<" ", "7">>,
                           FormatInt(I64(FALSE, CutoffMag(64)))}}

\* the runes of the text inputs, as their UTF-8 bytes: a, space and U+00E9
Runes == {<<"a">>, <<" ">>, <<"0xC3", "0xA9">>}

\* every string of these runes that has at most n bytes
RECURSIVE Utf8(_)
Utf8(n) ==
    {<<>>} \cup UNION {{r \o x : x \in Utf8(n - Len(r))} : r \in {y \in Runes : Len(y) <= n}}

TextInputs == Both(Utf8(MaxLen))

BoolInputs ==
    {NBool(TRUE), NBool(FALSE), NInt(Zero), NInt(One), NInt64(One)}
    \cup Both({<<"t">>, <<"f">>, <<"1">>, <<"0">>, <<"t", "r", "u", "e">>, <<"x">>, <<>>})

FloatInputs ==
    {NFloat(F(h)) : h \in {0, 123, 125, -130, 99990, 100000, -100000}}
    \cup Both({<<"1", ".", "2", "3">>, <<"1", ".", "2", "5">>, <<"-", "1", ".", "3">>,
               <<"2", ".", "3">>, <<"1", "0", "0", "0">>, <<"1", "2", "3", "4", "5", "6", "7", "8">>,
               <<"1", ".", "2", ".", "3">>, <<".">>, <<"a">>})

BytesInputs ==
    {NBytes(x) : x \in {<<>>, <<"a">>, <<"a", "b">>, <<"0xDE", "0xAD">>,
                        <<"\\", "x", "6", "1">>}}
    \cup {NStr(<<"a">>)}

NumericInputs ==
    {NFloat(F(h)) : h \in {111, 115, -5}}
    \cup Both({<<"1", "0", "0", ".", "1", "2">>, <<"1", ".", "1", "1", "1", "1">>, <<"a">>})

\* 2009-11-10 15:00:00 UTC and 2012-01-01 23:00:00 UTC
date1 == Time(2009, 11, 10, 15, 0, 0, 0, 0)
date2 == Time(2012, 1, 1, 23, 0, 0, 0, 0)

Day1 == <<"2", "0", "0", "1", "-", "0", "2", "-", "0", "3">>
Clock1 == <<"0", "4", ":", "0", "5", ":", "0", "6">>

TimeInputs ==
    {NTime(date1), NTime(date2)}
    \cup Both({Day1, Day1 \o <<" ">> \o Clock1, Day1 \o <<" ">> \o Clock1 \o <<"+", "0", "1">>,
               Day1 \o <<" ">> \o Clock1 \o <<".", "5">>, Day1 \o <<" ">> \o Clock1 \o <<".">>,
               Day1 \o <<" ", "0", "4", ":", "0", "5">>, Clock1,
               Day1 \o <<"T">> \o Clock1 \o <<"Z">>,
               <<"2", "0", "0", "1", "-", "0", "2", "-", "3", "0">>,
               <<"a", "b">>, <<"x">>, <<>>})

EnumLabels == << <<"x">>, <<"y">> >>

EnumInputs == Both({<<"x">>, <<"y">>, <<"z">>, <<"x", "y">>, <<>>})

\* the elements of the array literals
ArrElems == {I64(FALSE, <<7>>), I64(TRUE, <<2, 3>>)}

MinInt32 == I64(TRUE, CutoffMag(32))

\* the sequences of integers written as array literals
IntSeqs ==
    Strs(ArrElems, MaxArr) \cup {<<MaxInt32>>, <<MinInt32>>, <<MinInt32, Zero, MaxInt32>>}

\* the array literal {n1,n2,...} of a sequence of integers
ArrayLiteral(ns) ==
    <<"{">> \o Join([i \in 1..Len(ns) |-> FormatInt(ns[i])], <<",">>) \o <<"}">>

ArrayInputs ==
    {NStr(ArrayLiteral(ns)) : ns \in IntSeqs}
    \cup {NBytes(ArrayLiteral(ns)) : ns \in Strs(ArrElems, 1)}
    \cup {NList([i \in 1..Len(ns) |-> NInt(ns[i])]) : ns \in Strs(ArrElems, 2)}
    \cup {NList(<<NInt(One), Nil>>), NList(<<NStr(<<"7">>)>>), NList(<<NInt(One), NBool(TRUE)>>)}
    \cup Both({<<"{", "a", "}">>, <<"{", "7", ",", "a", "}">>, <<"{", "7", ",", "7">>,
               <<"7">>, <<"{">>, <<"{", " ", "7", ",", " ", "7", "}">>,
               <<"{", "2", "1", "4", "7", "4", "8", "3", "6", "4", "8", "}">>})

\* the brace groups of the two-level array literals
Groups == Strs({I64(FALSE, <<7>>)}, MaxLen) \cup {<<One, I64(FALSE, <<2>>)>>,
                                                 <<I64(FALSE, <<3>>), I64(FALSE, <<4>>)>>}

\* the sequences of one or two groups, and the empty one
GroupSeqs == {<<>>} \cup {<<g>> : g \in Groups} \cup {<<g, h>> : g, h \in Groups}

\* the array literal {{..},{..}} of a sequence of groups
NestedLiteral(gs) ==
    <<"{">> \o Join([i \in 1..Len(gs) |-> ArrayLiteral(gs[i])], <<",">>) \o <<"}">>

NestedInputs ==
    {NStr(NestedLiteral(gs)) : gs \in GroupSeqs}
    \cup {NBytes(NestedLiteral(<<g>>)) : g \in Groups}
    \cup {NList(<<NStr(ArrayLiteral(g))>>) : g \in Groups}
    \cup {NList(<<NList(<<NInt(One)>>), NList(<<>>)>>)}
    \cup Both({<<"{", "{", "7", "}">>, <<"{", "{", "7", ",", "a", "}", "}">>,
               <<"{", "7", "}">>, <<"{", "{", "{", "7", "}", "}", "}">>})

RowInputs ==
    {NList(<<NInt(One), NStr(<<"a">>)>>), NList(<<NInt(One)>>), NList(<<Nil, Nil>>),
     NList(<<NInt(One), NStr(<<"a">>), NInt(One)>>), NList(<<NStr(<<"a">>), NStr(<<"a">>)>>),
     NList(<<NInt(One), NBool(TRUE)>>), NList(<<NInt(MaxInt32), NStr(<<"a", " ">>)>>)}
    \cup Both({<<"(", "7", ",", "a", ")">>, <<"(", "7", ")">>, <<"(", "7", ",", "\"", "a", ",", "\"", ")">>,
               <<"(", "a", ",", "a", ")">>, <<"(", "7", ",", "a", ",", "7", ")">>,
               <<"{", "7", ",", "a", "}">>, <<"(", "7", ",", "a">>})

\* "txt" with its two double quotes
QuotedTxt == <<"\"", "t", "x", "t", "\"">>

\* (1,"""txt""",2.3): the row dialect doubles an embedded double quote
RowDoubled ==
    <<"(", "1", ",", "\"", "\"", "\"", "t", "x", "t", "\"", "\"", "\"", ",", "2", ".", "3", ")">>

\* (1,"\"txt\"",2.3): the embedded double quotes escaped with backslashes
RowBackslashed ==
    <<"(", "1", ",", "\"", "\\", "\"", "t", "x", "t", "\\", "\"", "\"", ",", "2", ".", "3", ")">>

Row3Inputs ==
    Both({RowDoubled, RowBackslashed,
          <<"(", "1", ",", "t", "x", "t", ",", "2", ".", "3", ")">>,
          <<"(", "1", ",", "\"", "a", ",", "\"", ",", "2", ".", "3", ")">>,
          <<"(", "1", ",", "2", ".", "3", ")">>,
          <<"(", "a", ",", "a", ",", "a", ")">>})
    \cup {NList(<<NInt(One), NStr(QuotedTxt), NFloat(F(230))>>),
          NList(<<NInt(One), NStr(<<"a">>)>>), NList(<<Nil, Nil, Nil>>)}

\* the column names of the record of a person, and a name it does not have
ColName == <<"n", "a", "m", "e">>
ColAge == <<"a", "g", "e">>
ColHeight == <<"h", "e", "i", "g", "h", "t">>

\* (jeff,53)
PersonLiteral == <<"(", "j", "e", "f", "f", ",", "5", "3", ")">>

PersonInputs ==
    Both({PersonLiteral, <<"(", "a", ",", "7", ")">>, <<"(", "a", ",", "a", ")">>, <<"(", "a", ")">>})
    \cup {NList(<<NStr(<<"a">>), NInt(One)>>), NList(<<Nil, Nil>>)}

\* a pair of an hstore literal: key => value, or key => NULL when null
HPair(k, v, null) == [key |-> k, val |-> v, null |-> null]

K1 == <<"k", "1">>
K2 == <<"k", "\"", "2">>
K3 == <<"k", "3">>
V1 == <<"v", "1">>
V2 == <<"\"", "v", "2", "\"">>

\* the pair lists written as hstore literals: the three pairs k1 => v1,
\* k"2 => "v2", k3 => NULL, and lists of one and two pairs
HPairLists ==
    {<<HPair(K1, V1, FALSE), HPair(K2, V2, FALSE), HPair(K3, <<>>, TRUE)>>,
     <<HPair(K1, V1, FALSE)>>, <<HPair(K2, V2, FALSE)>>, <<HPair(K3, <<>>, TRUE)>>,
     <<HPair(K1, <<>>, FALSE)>>, <<HPair(K1, <<"a", "\\">>, FALSE)>>,
     <<HPair(K1, nullBytes, FALSE)>>,
     <<HPair(K3, <<>>, TRUE), HPair(K1, V1, FALSE)>>,
     <<HPair(K1, <<"a", ",", " ">>, FALSE), HPair(K3, V1, FALSE)>>,
     <<>>}

\* s with every \ and " preceded by a backslash
HQuote(s) == <<"\"">> \o Replace(Replace(s, <<"\\">>, <<"\\", "\\">>), <<"\"">>, <<"\\", "\"">>) \o <<"\"">>

\* "key" => "value", "key" => NULL, ...
HLiteral(ps) ==
    Join([i \in 1..Len(ps) |->
            HQuote(ps[i].key) \o <<" ", "=", ">", " ">>
            \o (IF ps[i].null THEN nullBytes ELSE HQuote(ps[i].val))],
         <<",", " ">>)

HStoreInputs ==
    {NBytes(HLiteral(ps)) : ps \in HPairLists} \cup
    {NMap(<<"k">> :> <<"v">>), NMap((<<"k">> :> <<"v">>) @@ (<<"y">> :> <<>>)),
     NBytes(<<"\"", "k", "\"", " ", "=", ">", " ", "\"", "v", "\"">>),
     NBytes(<<"\"", "k", "\"", "=", ">", "N", "U", "L", "L">>),
     NBytes(<<"\"", "k", "\"", "=", ">", "\"", "N", "U", "L", "L", "\"">>),
     NBytes(<<"\"", "k", "\"", "=", ">", "\"", "\\", "\"", "\"", ",", "\"", "y", "\"", "=", ">", "\"", "v", "\"">>),
     NBytes(<<"\"", "k", "\"", "=", ">", "N", "U">>),
     NStr(<<"\"", "k", "\"", "=", ">", "\"", "v", "\"">>)}

\* handed to every type: the absent value and one value of each kind
CommonInputs ==
    {Nil, NInt(One), NInt64(One), NBool(TRUE), NFloat(F(150)), NTime(date1),
     NStr(<<>>), NBytes(<<>>), NStr(<<"a">>), NBytes(<<"t">>), NList(<<>>), NMap(<<>>)}

Inputs(d) ==
    CommonInputs \cup
    CASE d.c \in {"SmallInt", "Integer", "BigInt"} -> IntInputs
      [] d.c \in {"Real", "Double"}                -> FloatInputs
      [] d.c = "Bool"                              -> BoolInputs
      [] d.c = "Bytes"                             -> BytesInputs
      [] d.c \in {"Text", "VarChar", "Char"}       -> TextInputs
      [] d.c = "Numeric"                           -> NumericInputs
      [] d.c = "Timestamp"                         -> TimeInputs
      [] d.c = "Enum"                              -> EnumInputs
      [] d.c = "Array" /\ d.el.c # "Array"         -> ArrayInputs
      [] d.c = "Array" /\ d.el.c = "Array"         -> NestedInputs
      [] d.c = "Row" /\ Len(d.ks) = 3              -> Row3Inputs
      [] d.c = "Row" /\ Len(d.ks) # 3              -> RowInputs
      [] d.c = "Record" /\ d.cols[1].k = Integer   -> RowInputs
      [] d.c = "Record" /\ d.cols[1].k # Integer   -> PersonInputs
      [] d.c = "HStore"                            -> HStoreInputs

\* the constructors a value under test is made with
ScalarKinds ==
    {SmallInt, Integer, BigInt, Real, Double, Bool, Bytes, Text, VarChar(1),
     Numeric(5, 2), Numeric(5, 1), Timestamp, Enum(EnumLabels)}
    \cup {Char(n) : n \in 0..MaxCharN}

CompositeKinds ==
    {Array(Integer), Array(Array(Integer)), Row(<<Integer, Text>>),
     Row(<<BigInt, Text, Real>>),
     Record(<<Col(<<"a">>, Integer), Col(<<"b">>, Text)>>),
     Record(<<Col(ColName, Text), Col(ColAge, BigInt)>>), HStore}

\* the names a caller looks up in a MapValue made by d
Names(d) ==
    IF d.c = "Record" THEN {d.cols[i].name : i \in 1..Len(d.cols)} \cup {ColHeight}
    ELSE {<<"k">>, <<"y">>, ColHeight}

\* the values a caller hands to Set
SetInputs == {Nil, NInt(One), NStr(<<"a">>), NStr(<<"7">>), NBool(TRUE)}

Kinds == ScalarKinds \cup CompositeKinds

(***************************************************************************)
(* The state: one Value (cur), made by the constructor kind, and the last  *)
(* call made on it: op(arg) returned res and found the value as pre; field *)
(* is the name given to Set, and empty after every other call.             *)
(***************************************************************************)
\* NewValue(k): k(nil)
Init ==
    /\ kind \in Kinds
    /\ cur = Call(kind, Nil).k
    /\ pre = cur
    /\ op = "New"
    /\ arg = Nil
    /\ res = "nil"
    /\ field = <<>>
    /\ heap = <<>>
    /\ hpre = <<>>
    /\ held = {}
    /\ hop = [op |-> "none", a |-> 0, v |-> 0]
    /\ queries = <<>>
    /\ arrays = <<>>
    /\ apre = <<>>
    /\ qop = [op |-> "none", q |-> 0, r |-> 0, err |-> "nil", sent |-> FALSE,
              panic |-> FALSE]
    /\ fcall = "none"
    /\ fin = <<>>
    /\ fout = <<>>
    /\ dbop = [op |-> "none"]

\* cur.Scan(x); a panic ends the run
DoScan(x) ==
    /\ res # "panic"
    /\ \E r \in {Scan(cur, x)} :
          /\ cur' = r.k
          /\ res' = r.err
    /\ pre' = cur
    /\ op' = "Scan"
    /\ arg' = x
    /\ field' = <<>>
    /\ UNCHANGED <<kind, heapVars, queryVars, fnVars, dbop>>

\* cur.Set(name, x) on a MapValue; a panic ends the run
DoSet(name, x) ==
    /\ res # "panic"
    /\ kind.c \in {"Record", "HStore"}
    /\ \E r \in {Set(cur, name, x)} :
          /\ cur' = r.k
          /\ res' = r.err
    /\ pre' = cur
    /\ op' = "Set"
    /\ arg' = x
    /\ field' = name
    /\ UNCHANGED <<kind, heapVars, queryVars, fnVars, dbop>>

\* the values a caller hands to Append
AppendInputs == {NInt(One), NStr(<<"a">>)}

\* cur.Append(x) on an Array, a Row or a Record; an array is not grown
\* beyond MaxArr children; a panic ends the run
DoAppend(x) ==
    /\ res # "panic"
    /\ kind.c \in {"Array", "Row", "Record"}
    /\ kind.c = "Array" => Len(cur.vs) < MaxArr
    /\ \E r \in {AppendTo(cur, x)} :
          /\ cur' = r.k
          /\ res' = r.err
    /\ pre' = cur
    /\ op' = "Append"
    /\ arg' = x
    /\ field' = <<>>
    /\ UNCHANGED <<kind, heapVars, queryVars, fnVars, dbop>>

Next ==
    \/ \E x \in Inputs(kind) : DoScan(x)
    \/ \E name \in Names(kind), x \in SetInputs : DoSet(name, x)
    \/ \E x \in AppendInputs : DoAppend(x)

Spec == Init /\ [][Next]_vars

(***************************************************************************)
(* Value objects by reference.  Go Values are pointers: heap is the        *)
(* sequence of the objects allocated so far, an object's id is its index,  *)
(* and a pgArray object keeps in vs the ids of its children.  held is the  *)
(* set of ids the caller has in variables; hop is the last call and hpre   *)
(* the heap it found.                                                      *)
(***************************************************************************)
MaxObjects == 3
MaxChildren == 2

Ref(id) == [k |-> "value", v |-> id]

HeapArrays(h) == {i \in 1..Len(h) : h[i].t = "pgArray"}
HeapLeaves(h) == {i \in 1..Len(h) : h[i].t # "pgArray"}
Children(h, a) == {h[a].vs[i] : i \in 1..Len(h[a].vs)}

HOut(h, e) == [h |-> h, err |-> e]

\* k.Append(src) on the array object a
heapAppend(h, a, x) ==
    IF x.k = "value"
    THEN HOut([h EXCEPT ![a].vs = Append(@, x.v), ![a].valid = TRUE], "nil")
    ELSE Let(Call(h[a].el, x),
             LAMBDA r :
               IF r.err # "nil" THEN HOut(h, r.err)
               ELSE HOut(Append([h EXCEPT ![a].vs = Append(@, Len(h) + 1),
                                          ![a].valid = TRUE],
                                r.k),
                         "nil"))

\* for _, d := range x { err = k.Append(d); if err != nil { return err } }
RECURSIVE heapAppendAll(_, _, _, _)
heapAppendAll(h, a, xs, i) ==
    IF i > Len(xs) THEN HOut(h, "nil")
    ELSE Let(heapAppend(h, a, xs[i]),
             LAMBDA r : IF r.err # "nil" THEN r ELSE heapAppendAll(r.h, a, xs, i + 1))

\* k.Scan(src) on the array object a, src nil or a []interface{}
heapScan(h, a, x) ==
    IF x.k = "nil" THEN HOut([h EXCEPT ![a].vs = <<>>, ![a].valid = FALSE], "nil")
    ELSE heapAppendAll([h EXCEPT ![a].vs = <<>>, ![a].valid = TRUE], a, x.v, 1)

\* v.Val() of the object id
heapVal(h, id) ==
    IF h[id].t # "pgArray" THEN Val(h[id])
    ELSE IF ~h[id].valid THEN Nil
    ELSE NList([i \in 1..Len(h[id].vs) |-> Val(h[h[id].vs[i]])])

HeapNatives == {Nil, NInt(One), NStr(<<"7">>)}
HeapItems(h, hd) == {Ref(i) : i \in hd \cap HeapLeaves(h)} \cup {NInt(One)}
HeapLists(h, hd) ==
    {<<x>> : x \in HeapItems(h, hd)}
      \cup {<<x, y>> : x \in HeapItems(h, hd), y \in HeapItems(h, hd)}
Natives(xs) == Cardinality({i \in 1..Len(xs) : xs[i].k # "value"})

HeapInit ==
    /\ kind = Integer
    /\ cur = NilValue
    /\ pre = NilValue
    /\ op = "New"
    /\ arg = Nil
    /\ res = "nil"
    /\ field = <<>>
    /\ heap = <<>>
    /\ hpre = <<>>
    /\ held = {}
    /\ hop = [op |-> "none", a |-> 0, v |-> 0]
    /\ queries = <<>>
    /\ arrays = <<>>
    /\ apre = <<>>
    /\ qop = [op |-> "none", q |-> 0, r |-> 0, err |-> "nil", sent |-> FALSE,
              panic |-> FALSE]
    /\ fcall = "none"
    /\ fin = <<>>
    /\ fout = <<>>
    /\ dbop = [op |-> "none"]

\* v := NewValue(Integer, x)
HNewInteger(x) ==
    /\ Len(heap) < MaxObjects
    /\ Call(Integer, x).err = "nil"
    /\ heap' = Append(heap, Call(Integer, x).k)
    /\ held' = held \cup {Len(heap) + 1}
    /\ hpre' = heap
    /\ hop' = [op |-> "NewValue", a |-> 0, v |-> Len(heap) + 1]
    /\ UNCHANGED <<valueVars, queryVars, fnVars, dbop>>

\* a := NewValue(Array(Integer))
HNewArray ==
    /\ Len(heap) < MaxObjects
    /\ heap' = Append(heap, Call(Array(Integer), Nil).k)
    /\ held' = held \cup {Len(heap) + 1}
    /\ hpre' = heap
    /\ hop' = [op |-> "NewValue", a |-> Len(heap) + 1, v |-> 0]
    /\ UNCHANGED <<valueVars, queryVars, fnVars, dbop>>

\* a.Append(x), x a held Value or a native value
HAppend(a, x) ==
    /\ a \in held \cap HeapArrays(heap)
    /\ Len(heap[a].vs) < MaxChildren
    /\ Len(heap) + Natives(<<x>>) <= MaxObjects
    /\ heap' = heapAppend(heap, a, x).h
    /\ hpre' = heap
    /\ hop' = [op |-> "Append", a |-> a, v |-> 0]
    /\ UNCHANGED <<held, valueVars, queryVars, fnVars, dbop>>

\* a.Scan(x), x nil or a list of held Values and native values
HScanArray(a, x) ==
    /\ a \in held \cap HeapArrays(heap)
    /\ x.k = "list" => Len(heap) + Natives(x.v) <= MaxObjects
    /\ heap' = heapScan(heap, a, x).h
    /\ hpre' = heap
    /\ hop' = [op |-> "Scan", a |-> a, v |-> 0]
    /\ UNCHANGED <<held, valueVars, queryVars, fnVars, dbop>>

\* a.ValueAt(i).Scan(x)
HScanChild(a, i, x) ==
    /\ a \in held \cap HeapArrays(heap)
    /\ i \in 1..Len(heap[a].vs)
    /\ heap' = [heap EXCEPT ![heap[a].vs[i]] = Scan(@, x).k]
    /\ hpre' = heap
    /\ hop' = [op |-> "ScanChild", a |-> a, v |-> heap[a].vs[i]]
    /\ UNCHANGED <<held, valueVars, queryVars, fnVars, dbop>>

\* v.Scan(x) on a held Integer
HScanHeld(v, x) ==
    /\ v \in held \cap HeapLeaves(heap)
    /\ heap' = [heap EXCEPT ![v] = Scan(@, x).k]
    /\ hpre' = heap
    /\ hop' = [op |-> "ScanHeld", a |-> 0, v |-> v]
    /\ UNCHANGED <<held, valueVars, queryVars, fnVars, dbop>>

HeapNext ==
    \/ \E x \in HeapNatives : HNewInteger(x)
    \/ HNewArray
    \/ \E a \in 1..MaxObjects, x \in HeapItems(heap, held) : HAppend(a, x)
    \/ \E a \in 1..MaxObjects, x \in {Nil} \cup {NList(l) : l \in HeapLists(heap, held)} :
          HScanArray(a, x)
    \/ \E a \in 1..MaxObjects, i \in 1..MaxChildren, x \in HeapNatives : HScanChild(a, i, x)
    \/ \E v \in 1..MaxObjects, x \in HeapNatives : HScanHeld(v, x)

HeapSpec == HeapInit /\ [][HeapNext]_vars

(***************************************************************************)
(* Query.  The relations of the database: person(id, name, age) and        *)
(* pet(id, person_id -> person), both with primary key id.  A column is    *)
(* [name, pk, refT]; the references of a relation are built from the       *)
(* columns that name another relation.                                     *)
(***************************************************************************)
ColId       == <<"i", "d">>
ColPersonId == <<"p", "e", "r", "s", "o", "n", "_", "i", "d">>

DbCol(name, isPk, refT) == [name |-> name, pk |-> isPk, refT |-> refT]

RelCols(rel) ==
    CASE rel = "person" -> <<DbCol(ColId, TRUE, ""), DbCol(ColName, FALSE, ""),
                             DbCol(ColAge, FALSE, "")>>
      [] rel = "pet"    -> <<DbCol(ColId, TRUE, ""), DbCol(ColPersonId, FALSE, "person")>>
      [] rel = "log"    -> <<DbCol(ColName, FALSE, "")>>
      [] OTHER          -> <<>>

RelNames == {"person", "pet"}

\* rel.refs: has-one for every column of rel that references a relation,
\* has-many for every column of another relation that references rel
RelRefs(rel) ==
    {[kind |-> "hasOne", rel |-> RelCols(rel)[i].refT, col |-> RelCols(rel)[i]] :
        i \in {j \in 1..Len(RelCols(rel)) : RelCols(rel)[j].refT # ""}}
      \cup UNION {{[kind |-> "hasMany", rel |-> r, col |-> RelCols(r)[i]] :
                      i \in {j \in 1..Len(RelCols(r)) : RelCols(r)[j].refT = rel}} :
                  r \in RelNames}

NoCol == DbCol(<<>>, FALSE, "")

\* r.pk(): the first column marked pk, NoCol for nil
pk(rel) ==
    IF \E i \in 1..Len(RelCols(rel)) : RelCols(rel)[i].pk
    THEN RelCols(rel)[CHOOSE i \in 1..Len(RelCols(rel)) :
                         /\ RelCols(rel)[i].pk
                         /\ \A j \in 1..(i - 1) : ~RelCols(rel)[j].pk]
    ELSE NoCol

\* q.refFor(kind, target, within): a set with the reference, empty for nil
refFor(refKind, target, within) ==
    {r \in RelRefs(within) : r.rel = target /\ r.kind = refKind}

(***************************************************************************)
(* Go slices.  arrays is the sequence of the backing arrays allocated so   *)
(* far (an array's length is its capacity); a slice is [arr, len], with    *)
(* arr = 0 for the nil slice.  append writes in place when the capacity    *)
(* allows and else allocates a new array of the grown capacity.            *)
(***************************************************************************)
NilSlice == [arr |-> 0, len |-> 0]

SliceCap(as, s) == IF s.arr = 0 THEN 0 ELSE Len(as[s.arr])

\* the elements of the slice
Elems(as, s) == IF s.arr = 0 THEN <<>> ELSE SubSeq(as[s.arr], 1, s.len)

SOut(as, s) == [as |-> as, s |-> s]

\* append(s, xs...); zero fills the spare capacity of a new array
append(as, s, xs, zero) ==
    IF Len(xs) = 0 THEN SOut(as, s)
    ELSE IF s.len + Len(xs) <= SliceCap(as, s)
    THEN SOut([as EXCEPT ![s.arr] =
                   [i \in 1..Len(@) |->
                       IF i > s.len /\ i <= s.len + Len(xs) THEN xs[i - s.len] ELSE @[i]]],
              [s EXCEPT !.len = s.len + Len(xs)])
    ELSE Let(IF s.len + Len(xs) > 2 * SliceCap(as, s) THEN s.len + Len(xs)
             ELSE 2 * SliceCap(as, s),
             LAMBDA newcap :
               SOut(Append(as, [i \in 1..newcap |->
                                   IF i <= s.len THEN as[s.arr][i]
                                   ELSE IF i <= s.len + Len(xs) THEN xs[i - s.len]
                                   ELSE zero]),
                    [arr |-> Len(as) + 1, len |-> s.len + Len(xs)]))

(***************************************************************************)
(* The Query struct and its builders.  A builder returns [q, fresh, as,    *)
(* panic]: the Query returned, whether it is a new object, the backing     *)
(* arrays afterwards, and whether the call panicked.                       *)
(***************************************************************************)
NoParam == "nil"

\* new(Query)
NewQuery ==
    [tx |-> FALSE, from |-> "", where |-> NilSlice, whereParams |-> NilSlice,
     limit |-> 0, offset |-> 0, err |-> "nil"]

\* tx.From(name)
From(name) ==
    IF name \notin RelNames THEN [NewQuery EXCEPT !.err = "No relation found"]
    ELSE [NewQuery EXCEPT !.from = name, !.tx = TRUE]

BOut(q, fresh, as, panic) == [q |-> q, fresh |-> fresh, as |-> as, panic |-> panic]

\* q.cp(): [q, panic]
cp(q) == [q |-> q, panic |-> q.err # "nil"]

\* the two appends of Where on the copy c
whereAppend(as, c, w, params) ==
    IF c.panic THEN BOut(c.q, FALSE, as, TRUE)
    ELSE Let(append(as, c.q.where, <<w>>, <<>>),
             LAMBDA a1 :
               Let(append(a1.as, c.q.whereParams, params, NoParam),
                   LAMBDA a2 :
                     BOut([c.q EXCEPT !.where = a1.s, !.whereParams = a2.s],
                          TRUE, a2.as, FALSE)))

Where_unchecked(as, q, w, params) == whereAppend(as, cp(q), w, params)

Where(as, q, w, params) ==
    IF q.err # "nil" THEN BOut(q, FALSE, as, FALSE)
    ELSE whereAppend(as, cp(q), w, params)

And(as, q, w, params) == Where(as, q, w, params)

\* q2 := q.cp(); q2.err = e; return q2
withErr(as, c, e) ==
    IF c.panic THEN BOut(c.q, FALSE, as, TRUE)
    ELSE BOut([c.q EXCEPT !.err = e], TRUE, as, FALSE)

Limit(as, q, n) ==
    IF q.err # "nil" THEN BOut(q, FALSE, as, FALSE)
    ELSE IF cp(q).panic THEN BOut(q, FALSE, as, TRUE)
    ELSE BOut([q EXCEPT !.limit = n], TRUE, as, FALSE)

Offset(as, q, n) ==
    IF q.err # "nil" THEN BOut(q, FALSE, as, FALSE)
    ELSE IF cp(q).panic THEN BOut(q, FALSE, as, TRUE)
    ELSE BOut([q EXCEPT !.offset = n], TRUE, as, FALSE)

(***************************************************************************)
(* A RecordValue given to For is [rel, vals]: the name of its relation     *)
(* ("" for none) and its columns as a set of <<name, value>>, a value      *)
(* being a parameter or "NULL".                                            *)
(***************************************************************************)
RecVal(rel, vals) == [rel |-> rel, vals |-> vals]

\* v.ValueBy(name): NoParam for the nil Value
recValueBy(v, name) ==
    IF \E p \in v.vals : p[1] = name
    THEN (CHOOSE p \in v.vals : p[1] = name)[2]
    ELSE NoParam

\* fmt.Sprintf(`%s = $1`, name)
eqClause(name) == name \o <<" ", "=", " ", "$", "1">>

\* the has-one arm of For, ref being the reference found
forHasOne(as, q, v, ref) ==
    Let(recValueBy(v, ref.col.name),
        LAMBDA fkv :
          IF fkv = NoParam THEN withErr(as, cp(q), "No column")
          ELSE IF fkv = "NULL" THEN withErr(as, cp(q), "NULL foreign key")
          ELSE IF pk(q.from) = NoCol THEN withErr(as, cp(q), "must have a primary key")
          ELSE Where(as, q, eqClause(pk(q.from).name), <<fkv>>))

\* the has-many arm of For; pkv.IsNull() on the nil Value panics
forHasMany(as, q, v, ref) ==
    IF pk(v.rel) = NoCol THEN withErr(as, cp(q), "RecordValue must have a primary key")
    ELSE Let(recValueBy(v, pk(v.rel).name),
             LAMBDA pkv :
               IF pkv = NoParam THEN BOut(q, FALSE, as, TRUE)
               ELSE IF pkv = "NULL" THEN withErr(as, cp(q), "NULL primary key")
               ELSE Where(as, q, eqClause(ref.col.name), <<pkv>>))

For(as, q, v) ==
    IF q.err # "nil" THEN BOut(q, FALSE, as, FALSE)
    ELSE IF v.rel = "" THEN withErr(as, cp(q), "does not belong to a relation")
    ELSE IF refFor("hasOne", q.from, v.rel) # {}
    THEN forHasOne(as, q, v, CHOOSE r \in refFor("hasOne", q.from, v.rel) : TRUE)
    ELSE IF refFor("hasMany", q.from, v.rel) # {}
    THEN forHasMany(as, q, v, CHOOSE r \in refFor("hasMany", q.from, v.rel) : TRUE)
    ELSE withErr(as, cp(q), "No reference columns")

(***************************************************************************)
(* The SQL of a SELECT.  placePat is (?:[^\\]\$)(\d+): a character other   *)
(* than a backslash, a dollar sign and a run of digits.                    *)
(***************************************************************************)
\* does placePat match at position p of s
placeAt(s, p) ==
    /\ p + 2 <= Len(s)
    /\ s[p] # "\\"
    /\ s[p + 1] = "$"
    /\ isDigit(s[p + 2])

\* the last digit of the match that starts at p
RECURSIVE placeEnd(_, _)
placeEnd(s, z) ==
    IF z + 1 <= Len(s) /\ isDigit(s[z + 1]) THEN placeEnd(s, z + 1) ELSE z

\* placePat.FindAllStringSubmatch(s, -1): the numbers matched, left to right
RECURSIVE findPlaces(_, _)
findPlaces(s, p) ==
    IF p > Len(s) THEN <<>>
    ELSE IF placeAt(s, p)
    THEN <<digitsToNat(SubSeq(s, p + 2, placeEnd(s, p + 2)))>>
           \o findPlaces(s, placeEnd(s, p + 2) + 1)
    ELSE findPlaces(s, p + 1)

\* placePat.ReplaceAllStringFunc(s, m -> m[0:2] + (n + 1))
RECURSIVE bumpPlaces(_, _)
bumpPlaces(s, p) ==
    IF p > Len(s) THEN <<>>
    ELSE IF placeAt(s, p)
    THEN <<s[p], s[p + 1]>>
           \o natDigits(digitsToNat(SubSeq(s, p + 2, placeEnd(s, p + 2))) + 1)
           \o bumpPlaces(s, placeEnd(s, p + 2) + 1)
    ELSE <<s[p]>> \o bumpPlaces(s, p + 1)

RECURSIVE maxPlace(_, _)
maxPlace(ns, i) ==
    IF Len(ns) = 0 THEN i
    ELSE maxPlace(Tail(ns), IF ns[1] > i THEN ns[1] ELSE i)

\* the loop of whereExpr from clause idx on: i is the biggest placeholder of
\* the first clause that has one, sts the clauses written so far
RECURSIVE whereLoop(_, _, _, _)
whereLoop(ws, idx, i, sts) ==
    IF idx > Len(ws) THEN sts
    ELSE IF i = 0
    THEN IF Len(findPlaces(ws[idx], 1)) = 0
         THEN whereLoop(ws, idx + 1, i, sts)
         ELSE whereLoop(ws, idx + 1, maxPlace(findPlaces(ws[idx], 1), i),
                        [sts EXCEPT ![idx] = ws[idx]])
    ELSE whereLoop(ws, idx + 1, i, [sts EXCEPT ![idx] = bumpPlaces(ws[idx], 1)])

\* sts when the loop of whereExpr is over
whereSts(ws) == whereLoop(ws, 1, 0, [j \in 1..Len(ws) |-> <<>>])

SepAnd == <<" ", "A", "N", "D", " ">>

\* q.whereExpr() for the clause list ws
whereExpr(ws) ==
    IF Len(ws) = 0 THEN <<>>
    ELSE <<"W", "H", "E", "R", "E", " ">> \o Join(whereSts(ws), SepAnd)

limitExpr(q) ==
    IF q.limit = 0 THEN <<>> ELSE <<"L", "I", "M", "I", "T", " ">> \o natDigits(q.limit)

offsetExpr(q) ==
    IF q.offset = 0 THEN <<>>
    ELSE <<"O", "F", "F", "S", "E", "T", " ">> \o natDigits(q.offset)

\* q.selectSql(names...): the parts that Sprintf puts into
\* `SELECT %s FROM %s %s %s %s`; sel empty stands for the relation's fields
selectSql(as, q, sel) ==
    [sel |-> sel, from |-> q.from, where |-> whereExpr(Elems(as, q.where)),
     limit |-> limitExpr(q), offset |-> offsetExpr(q)]

\* q.selectArgs()
selectArgs(as, q) == Elems(as, q.whereParams)

(***************************************************************************)
(* The terminal operations.  db is what the database answers to a          *)
(* statement ("nil" or an error).  A terminal returns [err, sent, sql,     *)
(* args, as, panic]: the error returned, whether a statement was sent      *)
(* and which, the backing arrays afterwards, whether the call panicked.    *)
(***************************************************************************)
NoSql == [sel |-> <<>>, from |-> "", where |-> <<>>, limit |-> <<>>, offset |-> <<>>]

TOut(err, sent, sql, args, as, panic) ==
    [err |-> err, sent |-> sent, sql |-> sql, args |-> args, as |-> as, panic |-> panic]

TErr(as, err) == TOut(err, FALSE, NoSql, <<>>, as, FALSE)

TPanic(as) == TOut("nil", FALSE, NoSql, <<>>, as, TRUE)

\* q.rows(s, params...): q.tx.Query on a nil tx panics
rows(as, q, sql, args, db) ==
    IF q.err # "nil" THEN TErr(as, q.err)
    ELSE IF ~q.tx THEN TPanic(as)
    ELSE TOut(db, TRUE, sql, args, as, FALSE)

\* q.query(s, params...); an error of the row decoding is one of db's errors
query(as, q, sql, args, db) == rows(as, q, sql, args, db)

Fetch(as, q, db) ==
    IF q.err # "nil" THEN TErr(as, q.err)
    ELSE query(as, q, selectSql(as, q, <<>>), selectArgs(as, q), db)

\* q.Limit(1).Fetch()
FetchOne(as, q, db) ==
    Let(Limit(as, q, 1),
        LAMBDA b : IF b.panic THEN TPanic(as) ELSE Fetch(b.as, b.q, db))

\* Get(pk): q.Where(`<pk column> = $1`, pk).FetchOne()
QueryGet(as, q, pkv, db) ==
    IF q.err # "nil" THEN TErr(as, q.err)
    ELSE IF pk(q.from) = NoCol THEN TErr(as, "No primary key found")
    ELSE Let(Where(as, q, eqClause(pk(q.from).name), <<pkv>>),
             LAMBDA b : IF b.panic THEN TPanic(as) ELSE FetchOne(b.as, b.q, db))

agg(as, q, sel, db) ==
    IF q.err # "nil" THEN TErr(as, q.err)
    ELSE rows(as, q, selectSql(as, q, sel), selectArgs(as, q), db)

Count(as, q, db) == agg(as, q, <<"c", "o", "u", "n", "t", "(", "*", ")">>, db)

\* the body shared by Sum, Avg, Min, Max and ArrayAgg: the column is looked
\* up in q.from.cols and fn(name) selected
aggOf(as, q, fn, name, db) ==
    IF q.err # "nil" THEN TErr(as, q.err)
    ELSE IF \E i \in 1..Len(RelCols(q.from)) : RelCols(q.from)[i].name = name
    THEN agg(as, q, fn \o <<"(">> \o name \o <<")">>, db)
    ELSE TErr(as, "unknown column name")

Sum(as, q, name, db) == aggOf(as, q, <<"s", "u", "m">>, name, db)
Avg(as, q, name, db) == aggOf(as, q, <<"a", "v", "g">>, name, db)
QueryMin(as, q, name, db) == aggOf(as, q, <<"m", "i", "n">>, name, db)
QueryMax(as, q, name, db) == aggOf(as, q, <<"m", "a", "x">>, name, db)
ArrayAgg(as, q, name, db) ==
    aggOf(as, q, <<"a", "r", "r", "a", "y", "_", "a", "g", "g">>, name, db)

(***************************************************************************)
(* The state of a program that builds queries: queries is the sequence of  *)
(* the Query objects made so far (a Query's id is its index), arrays the   *)
(* backing arrays; qop is the last call (receiver q, Query returned r) and *)
(* apre the backing arrays it found.  A panic ends the run.                *)
(***************************************************************************)
MaxQueries == 2
MaxChain == 5

Clause(w, params) == [w |-> w, ps |-> params]

ClauseA == Clause(<<"a", " ", "=", " ", "$", "1">>, <<"pa">>)
ClauseB == Clause(<<"b", " ", "=", " ", "$", "1", " ", "A", "N", "D", " ",
                    "c", " ", "=", " ", "$", "2">>, <<"pb", "pc">>)
ClauseD == Clause(<<"d", " ", "=", " ", "$", "1">>, <<"pd">>)
ClauseE == Clause(<<"e", " ", "I", "S", " ", "N", "U", "L", "L">>, <<>>)

ChainClauses == {ClauseA, ClauseB}
Clauses == ChainClauses \cup {ClauseD, ClauseE}

PetOf     == RecVal("pet", {<<ColPersonId, "fk">>})
PersonRec == RecVal("person", {<<ColId, "pkv">>})

ChainRecords == {PetOf}
Records ==
    ChainRecords \cup {RecVal("", {}), RecVal("pet", {<<ColPersonId, "NULL">>}),
                       RecVal("pet", {}),
                       PersonRec, RecVal("person", {<<ColId, "NULL">>}),
                       RecVal("person", {})}

FromNames == {"person", "pet", "nope"}
AggNames == {ColAge, <<"x">>}
DbResults == {"nil", "db error"}
Builders == {"Where", "And", "Limit", "Offset", "For"}
Terminals == {"Fetch", "FetchOne", "Get", "Count", "Sum", "Avg", "Min", "Max", "ArrayAgg"}

Called(name, q, r, t) ==
    [op |-> name, q |-> q, r |-> r, err |-> t.err, sent |-> t.sent, sql |-> t.sql,
     args |-> t.args, panic |-> t.panic]

QInit ==
    /\ kind = Integer
    /\ cur = NilValue
    /\ pre = NilValue
    /\ op = "New"
    /\ arg = Nil
    /\ res = "nil"
    /\ field = <<>>
    /\ heap = <<>>
    /\ hpre = <<>>
    /\ held = {}
    /\ hop = [op |-> "none", a |-> 0, v |-> 0]
    /\ queries = <<>>
    /\ arrays = <<>>
    /\ apre = <<>>
    /\ qop = Called("none", 0, 0, TErr(<<>>, "nil"))
    /\ fcall = "none"
    /\ fin = <<>>
    /\ fout = <<>>
    /\ dbop = [op |-> "none"]

\* tx.From(name)
QFrom(cap, name) ==
    /\ ~qop.panic
    /\ Len(queries) < cap
    /\ queries' = Append(queries, From(name))
    /\ apre' = arrays
    /\ qop' = Called("From", 0, Len(queries) + 1, TErr(arrays, "nil"))
    /\ UNCHANGED <<arrays, valueVars, heapVars, fnVars, dbop>>

\* a builder called on queries[q] that returned b
Built(cap, name, q, b) ==
    /\ ~qop.panic
    /\ b.fresh => Len(queries) < cap
    /\ queries' = IF b.fresh THEN Append(queries, b.q) ELSE queries
    /\ arrays' = b.as
    /\ apre' = arrays
    /\ qop' = Called(name, q,
                     IF b.panic THEN 0 ELSE IF b.fresh THEN Len(queries) + 1 ELSE q,
                     [TErr(arrays, "nil") EXCEPT !.panic = b.panic])
    /\ UNCHANGED <<valueVars, heapVars, fnVars, dbop>>

QWhere(cap, q, c) ==
    /\ q \in 1..Len(queries)
    /\ Built(cap, "Where", q, Where(arrays, queries[q], c.w, c.ps))

QAnd(cap, q, c) ==
    /\ q \in 1..Len(queries)
    /\ Built(cap, "And", q, And(arrays, queries[q], c.w, c.ps))

QLimit(cap, q, n) ==
    /\ q \in 1..Len(queries)
    /\ Built(cap, "Limit", q, Limit(arrays, queries[q], n))

QOffset(cap, q, n) ==
    /\ q \in 1..Len(queries)
    /\ Built(cap, "Offset", q, Offset(arrays, queries[q], n))

QFor(cap, q, v) ==
    /\ q \in 1..Len(queries)
    /\ Built(cap, "For", q, For(arrays, queries[q], v))

\* a terminal called on queries[q] that returned t; the Query objects and
\* backing arrays it allocated on the way are garbage when it returns
Ended(name, q, t) ==
    /\ ~qop.panic
    /\ arrays' = SubSeq(t.as, 1, Len(arrays))
    /\ apre' = arrays
    /\ qop' = Called(name, q, 0, t)
    /\ UNCHANGED <<queries, valueVars, heapVars, fnVars, dbop>>

QFetch(q, db) ==
    /\ q \in 1..Len(queries)
    /\ Ended("Fetch", q, Fetch(arrays, queries[q], db))

QFetchOne(q, db) ==
    /\ q \in 1..Len(queries)
    /\ Ended("FetchOne", q, FetchOne(arrays, queries[q], db))

QGet(q, pkv, db) ==
    /\ q \in 1..Len(queries)
    /\ Ended("Get", q, QueryGet(arrays, queries[q], pkv, db))

QCount(q, db) ==
    /\ q \in 1..Len(queries)
    /\ Ended("Count", q, Count(arrays, queries[q], db))

QSum(q, name, db) ==
    /\ q \in 1..Len(queries)
    /\ Ended("Sum", q, Sum(arrays, queries[q], name, db))

QAvg(q, name, db) ==
    /\ q \in 1..Len(queries)
    /\ Ended("Avg", q, Avg(arrays, queries[q], name, db))

QMin(q, name, db) ==
    /\ q \in 1..Len(queries)
    /\ Ended("Min", q, QueryMin(arrays, queries[q], name, db))

QMax(q, name, db) ==
    /\ q \in 1..Len(queries)
    /\ Ended("Max", q, QueryMax(arrays, queries[q], name, db))

QArrayAgg(q, name, db) ==
    /\ q \in 1..Len(queries)
    /\ Ended("ArrayAgg", q, ArrayAgg(arrays, queries[q], name, db))

QNext ==
    \/ \E name \in FromNames : QFrom(MaxQueries, name)
    \/ \E q \in 1..MaxQueries, c \in Clauses : QWhere(MaxQueries, q, c)
    \/ \E q \in 1..MaxQueries, c \in Clauses : QAnd(MaxQueries, q, c)
    \/ \E q \in 1..MaxQueries : QLimit(MaxQueries, q, 2)
    \/ \E q \in 1..MaxQueries : QOffset(MaxQueries, q, 1)
    \/ \E q \in 1..MaxQueries, v \in Records : QFor(MaxQueries, q, v)
    \/ \E q \in 1..MaxQueries, db \in DbResults : QFetch(q, db)
    \/ \E q \in 1..MaxQueries, db \in DbResults : QFetchOne(q, db)
    \/ \E q \in 1..MaxQueries, db \in DbResults : QGet(q, "pk", db)
    \/ \E q \in 1..MaxQueries, db \in DbResults : QCount(q, db)
    \/ \E q \in 1..MaxQueries, name \in AggNames, db \in DbResults : QSum(q, name, db)
    \/ \E q \in 1..MaxQueries, db \in DbResults : QAvg(q, ColAge, db)
    \/ \E q \in 1..MaxQueries, db \in DbResults : QMin(q, ColAge, db)
    \/ \E q \in 1..MaxQueries, db \in DbResults : QMax(q, ColAge, db)
    \/ \E q \in 1..MaxQueries, db \in DbResults : QArrayAgg(q, ColAge, db)

QSpec == QInit /\ [][QNext]_vars

\* the builders alone, on longer chains
ChainNext ==
    \/ QFrom(MaxChain, "person")
    \/ \E q \in 1..MaxChain, c \in ChainClauses : QWhere(MaxChain, q, c)
    \/ \E q \in 1..MaxChain, c \in {ClauseA, ClauseE} : QAnd(MaxChain, q, c)
    \/ \E q \in 1..MaxChain : QLimit(MaxChain, q, 2)
    \/ \E q \in 1..MaxChain : QOffset(MaxChain, q, 1)
    \/ \E q \in 1..MaxChain, v \in ChainRecords : QFor(MaxChain, q, v)

ChainSpec == QInit /\ [][ChainNext]_vars

(***************************************************************************)
(* The tokenizer and the encoders as functions.  fcall names the function  *)
(* applied (one call a run), fin what it was given and fout what it        *)
(* returned.                                                               *)
(***************************************************************************)
MaxSplitLen == 4
MaxEscLen == 3

SplitBytes == {"{", "}", "(", ")", ",", "1", "\""}
EscBytes == {"\\", "\"", "x", ",", "}"}

\* the closing delimiter of an opening one
CloserOf(b) == IF b = "{" THEN "}" ELSE IF b = "(" THEN ")" ELSE ""

\* s between double quotes as the only element of a literal of dialect t
QuotedOnly(s, t) ==
    <<IF t = 1 THEN "{" ELSE "(">> \o <<"\"">> \o s \o <<"\"">>
      \o <<IF t = 1 THEN "}" ELSE ")">>

\* literals with an opening double quote and no closing one, and literals
\* with an inner '{' and no matching '}'
OpenQuoted ==
    {<<"{", "\"", "a", "}">>, <<"{", "1", ",", "\"", "a", "}">>,
     <<"{", "\"", "a", ",", "b", "}">>, <<"(", "\"", "a", ")">>,
     <<"(", "1", ",", "\"", "a", ")">>}
OpenBraced ==
    {<<"{", "{", "1", "}">>, <<"{", "{", "1", ",", "2", "}">>,
     <<"{", "{", "1", "}", ",", "{", "2", "}">>}
Unterminated == OpenQuoted \cup OpenBraced

WellFormed ==
    {<<"{", "\"", "a", "\"", "}">>, <<"{", "{", "1", "}", "}">>,
     <<"(", "\"", "a", "\"", ")">>, <<"{", "1", ",", "2", "}">>}

DecodeKinds == {Array(Text), Array(Array(Integer)), Row(<<Text>>), Row(<<Integer, Text>>)}

FnInit ==
    /\ kind = Integer
    /\ cur = NilValue
    /\ pre = NilValue
    /\ op = "New"
    /\ arg = Nil
    /\ res = "nil"
    /\ field = <<>>
    /\ heap = <<>>
    /\ hpre = <<>>
    /\ held = {}
    /\ hop = [op |-> "none", a |-> 0, v |-> 0]
    /\ queries = <<>>
    /\ arrays = <<>>
    /\ apre = <<>>
    /\ qop = [op |-> "none", q |-> 0, r |-> 0, err |-> "nil", sent |-> FALSE,
              panic |-> FALSE]
    /\ fcall = "none"
    /\ fin = <<>>
    /\ fout = <<>>
    /\ dbop = [op |-> "none"]

FnFrame == UNCHANGED <<valueVars, heapVars, queryVars, dbop>>

\* split(s)
ApplySplit(s) ==
    /\ fcall = "none"
    /\ fcall' = "split"
    /\ fin' = s
    /\ fout' = split(s)
    /\ FnFrame

\* split of the literal that holds escape(s, t) between double quotes
ApplyEscape(s, t) ==
    /\ fcall = "none"
    /\ fcall' = "escape"
    /\ fin' = [s |-> s, t |-> t]
    /\ fout' = split(QuotedOnly(escape(s, t), t))
    /\ FnFrame

\* k(s) for the constructor k of d: the composite's Scan of the literal s
ApplyDecode(d, s) ==
    /\ fcall = "none"
    /\ fcall' = "decode"
    /\ fin' = [d |-> d, s |-> s]
    /\ fout' = Call(d, NBytes(s))
    /\ FnFrame

\* the composites whose serialization is looked at: a constructor and the
\* native sequence its value is filled from
EncodeCases ==
    {<<Array(Integer), NList(<<NInt(One), NInt(One)>>)>>,
     <<Array(Bool), NList(<<NBool(TRUE)>>)>>,
     <<Array(Real), NList(<<NFloat(F(230))>>)>>,
     <<Array(Numeric(5, 2)), NList(<<NStr(<<"1", ".", "5", "0">>)>>)>>,
     <<Array(Text), NList(<<NStr(<<"a", "\"">>), NStr(<<"b">>)>>)>>,
     <<Array(Bytes), NList(<<NBytes(<<"a">>)>>)>>,
     <<Array(Enum(EnumLabels)), NList(<<NStr(<<"x">>)>>)>>,
     <<Array(Timestamp), NList(<<NTime(date1)>>)>>,
     <<Array(Array(Integer)), NList(<<NList(<<NInt(One)>>), NList(<<NInt(One)>>)>>)>>,
     <<Array(Row(<<Integer, Text>>)), NList(<<NList(<<NInt(One), NStr(<<"a">>)>>)>>)>>,
     <<Row(<<Integer, Text>>), NList(<<NInt(One), NStr(<<"a", "\"">>)>>)>>,
     <<Row(<<Bool, Real>>), NList(<<NBool(FALSE), NFloat(F(230))>>)>>,
     <<Row(<<Numeric(5, 2), Bytes>>), NList(<<NStr(<<"1", ".", "5", "0">>), NBytes(<<"a">>)>>)>>,
     <<Row(<<Timestamp, Enum(EnumLabels)>>), NList(<<NTime(date1), NStr(<<"x">>)>>)>>,
     <<Row(<<Array(Integer), Integer>>), NList(<<NList(<<NInt(One)>>), Nil>>)>>,
     <<Row(<<Row(<<Text>>), Text>>), NList(<<NList(<<NStr(<<"a">>)>>), Nil>>)>>,
     <<Record(<<Col(ColName, Text), Col(ColAge, BigInt)>>),
       NList(<<NStr(<<"a", "\\">>), NInt(One)>>)>>,
     <<Record(<<Col(<<"a">>, Array(Text)), Col(<<"b">>, Timestamp)>>),
       NList(<<NList(<<NStr(<<"a">>)>>), NTime(date1)>>)>>}

\* v.bytes() of the composite v made by k(x) for the constructor k of d
ApplyEncode(d, x) ==
    /\ fcall = "none"
    /\ fcall' = "encode"
    /\ \E r \in {Call(d, x)} :
          /\ fin' = [d |-> d, x |-> x, v |-> r.k, err |-> r.err]
          /\ fout' = BytesOf(r.k)
    /\ FnFrame

MaxTxtLen == 2
TxtBytes == {"a", "\"", "\\", ",", "{", "}"}

\* native [][]string values: a group of one or two strings, alone or before
\* a second group
TxtGroups ==
    {<<s>> : s \in Strs(TxtBytes, MaxTxtLen)}
    \cup {<<s, <<"a">>>> : s \in Strs(TxtBytes, MaxTxtLen)}
TxtNested ==
    {NList(<<NList([i \in 1..Len(g) |-> NStr(g[i])])>>) : g \in TxtGroups}
    \cup {NList(<<NList([i \in 1..Len(g) |-> NStr(g[i])]), NList(<<NStr(<<"a">>)>>)>>) :
             g \in TxtGroups}

\* Array(Array(Text))(x), its bytes(), and Array(Array(Text)) of those bytes
ApplyReencode(x) ==
    /\ fcall = "none"
    /\ fcall' = "reencode"
    /\ \E r \in {Call(Array(Array(Text)), x)} :
          /\ fin' = [x |-> x, v |-> r.k, err |-> r.err]
          /\ fout' = {Call(Array(Array(Text)), NBytes(b)) : b \in BytesOf(r.k)}
    /\ FnFrame

\* rs.ScanRecord(v): rs.Scan with the children of v as the destinations of
\* the columns vals of the current row; sql.Rows.Scan refuses a number of
\* destinations other than the number of columns, and else hands column i
\* to the Scan of destination i, up to the first error
ScanRecord(v, vals) ==
    IF Len(v.vs) # Len(vals) THEN Out(v, "error")
    ELSE Let(scanEach(v.vs, vals, 1),
             LAMBDA r : Out([v EXCEPT !.vs = r.vs], r.err))

\* the body of the loop of Query.query for one row: vx, err := q.from.k(nil),
\* rs.ScanRecord(v), all = append(all, v)
queryRow(d, vals) ==
    Let(Call(d, Nil),
        LAMBDA r : IF r.err # "nil" THEN r ELSE ScanRecord(r.k, vals))

\* the relations fetched from, by the Record constructor of their columns,
\* and the rows the database returns for them
FetchKinds ==
    {Record(<<Col(ColName, Text), Col(ColAge, BigInt)>>),
     Record(<<Col(ColId, Integer)>>)}
FetchCols == {NStr(<<"j">>), NInt64(One), NBytes(<<"7">>), Nil}
FetchRows == {<<c>> : c \in FetchCols} \cup {<<c, e>> : c, e \in FetchCols}

\* the RecordValue that Fetch returns for a result of the one row vals
ApplyFetch(d, vals) ==
    /\ fcall = "none"
    /\ fcall' = "fetch"
    /\ fin' = [d |-> d, vals |-> vals]
    /\ fout' = queryRow(d, vals)
    /\ FnFrame

FnNext ==
    \/ \E d \in FetchKinds, vals \in FetchRows : ApplyFetch(d, vals)
    \/ \E s \in Strs(SplitBytes, MaxSplitLen) : ApplySplit(s)
    \/ \E s \in Strs(EscBytes, MaxEscLen), t \in {1, 2} : ApplyEscape(s, t)
    \/ \E d \in DecodeKinds, s \in Unterminated \cup WellFormed : ApplyDecode(d, s)
    \/ \E c \in EncodeCases : ApplyEncode(c[1], c[2])
    \/ \E x \in TxtNested : ApplyReencode(x)

FnSpec == FnInit /\ [][FnNext]_vars

(***************************************************************************)
(* DB.Insert, DB.Update, DB.Upsert and DB.Delete.  A RecordValue is taken  *)
(* as [rel, pkv]: the name of its relation ("" for none) and what          *)
(* ValueBy(pk.name) finds in it ("absent" for nil, "null", "set").  The    *)
(* database is [begin, stmts, commit]: the error of Begin, of the          *)
(* statement of each record, and of Commit.  dbop is the last call, with   *)
(* the number of transactions begun, committed and rolled back in it.      *)
(***************************************************************************)
MaxRecords == 2

\* the columns of rel that a loop "if c.pk && !withPk { continue }" fills
Filled(rel, withPk) ==
    SelectSeq(RelCols(rel), LAMBDA c : ~(c.pk /\ ~withPk))

\* r.fields(withPk): [panic, names]; the slice has len(r.cols) entries, one
\* less without the primary key, and an entry past its end is a panic
fields(rel, withPk) ==
    LET n == Len(RelCols(rel)) - (IF withPk THEN 0 ELSE 1)
        f == Filled(rel, withPk)
    IN  IF RelCols(rel) = <<>> \/ Len(f) > n THEN [panic |-> TRUE, names |-> <<>>]
        ELSE [panic |-> FALSE,
              names |-> [i \in 1..n |-> IF i <= Len(f) THEN f[i].name ELSE <<>>]]

\* r.bindings(withPk, set): [panic, n], n the number of bindings written
bindings(rel, withPk, set) ==
    LET n == Len(RelCols(rel)) - (IF withPk THEN 0 ELSE 1)
        f == Filled(rel, withPk)
    IN  IF n < 0 \/ Len(f) > n THEN [panic |-> TRUE, n |-> 0]
        ELSE [panic |-> FALSE, n |-> Len(f)]

\* r.valArgs(v, update): [panic, n], n the number of arguments; the values
\* of the columns that are not pk, then for an update the value of pk.name
valArgs(rel, update) ==
    LET n == Len(RelCols(rel)) - (IF update THEN 0 ELSE 1)
        f == SelectSeq(RelCols(rel), LAMBDA c : ~c.pk)
    IN  IF n < 0 \/ Len(f) > n \/ (update /\ pk(rel) = NoCol) \/ (update /\ Len(f) + 1 > n)
        THEN [panic |-> TRUE, n |-> 0]
        ELSE [panic |-> FALSE, n |-> n]

\* the outcome of a Tx operation
XOut(err, panic) == [err |-> err, panic |-> panic]

\* tx.queryAndUpdate(q, v, update) when the statement ends with dbres
queryAndUpdate(v, update, dbres) ==
    IF valArgs(v.rel, update).panic THEN XOut("nil", TRUE) ELSE XOut(dbres, FALSE)

\* the body of the loop of Tx.Insert for the record v
Insert_one(v, dbres) ==
    IF v.rel = "" THEN XOut("no relation", FALSE)
    ELSE IF bindings(v.rel, FALSE, FALSE).panic \/ fields(v.rel, FALSE).panic
              \/ fields(v.rel, TRUE).panic
    THEN XOut("nil", TRUE)
    ELSE queryAndUpdate(v, FALSE, dbres)

\* the body of the loop of Tx.Update
Update_one(v, dbres) ==
    IF v.rel = "" THEN XOut("no relation", FALSE)
    ELSE IF pk(v.rel) = NoCol THEN XOut("no primary key", FALSE)
    ELSE IF bindings(v.rel, FALSE, TRUE).panic \/ fields(v.rel, TRUE).panic
    THEN XOut("nil", TRUE)
    ELSE queryAndUpdate(v, TRUE, dbres)

\* the body of the loop of Tx.Upsert
Upsert_one(v, dbres) ==
    IF v.rel = "" THEN XOut("no relation", FALSE)
    ELSE IF pk(v.rel) = NoCol THEN XOut("no primary key", FALSE)
    ELSE IF v.pkv \in {"absent", "null"} THEN Insert_one(v, dbres)
    ELSE Update_one(v, dbres)

\* the body of the loop of Tx.Delete
Delete_one(v, dbres) ==
    IF v.rel = "" THEN XOut("no relation", FALSE)
    ELSE IF pk(v.rel) = NoCol THEN XOut("no primary key", FALSE)
    ELSE IF v.pkv = "absent" THEN XOut("no primary key value", FALSE)
    ELSE XOut(dbres, FALSE)

TxOne(name, v, dbres) ==
    CASE name = "Insert" -> Insert_one(v, dbres)
      [] name = "Update" -> Update_one(v, dbres)
      [] name = "Upsert" -> Upsert_one(v, dbres)
      [] name = "Delete" -> Delete_one(v, dbres)

\* tx.Insert(vs...), tx.Update(vs...), tx.Upsert(vs...), tx.Delete(vs...):
\* for _, v := range vs { ...; if err != nil { return err } }; return nil
RECURSIVE TxLoop(_, _, _, _)
TxLoop(name, vs, stmts, i) ==
    IF i > Len(vs) THEN XOut("nil", FALSE)
    ELSE Let(TxOne(name, vs[i], stmts[i]),
             LAMBDA r : IF r.panic \/ r.err # "nil" THEN r
                        ELSE TxLoop(name, vs, stmts, i + 1))

\* db.Insert(vs...), db.Update(vs...), db.Upsert(vs...), db.Delete(vs...):
\* tx, err := db.Begin(); err = tx.X(vs...); if err != nil { tx.Rollback();
\* return err }; return tx.Commit()
DBCall(name, vs, db) ==
    IF db.begin # "nil"
    THEN [begun |-> 0, commits |-> 0, rollbacks |-> 0, txerr |-> "nil", err |-> db.begin,
          panic |-> FALSE]
    ELSE Let(TxLoop(name, vs, db.stmts, 1),
             LAMBDA r :
               IF r.panic
               THEN [begun |-> 1, commits |-> 0, rollbacks |-> 0, txerr |-> "nil",
                     err |-> "nil", panic |-> TRUE]
               ELSE IF r.err # "nil"
               THEN [begun |-> 1, commits |-> 0, rollbacks |-> 1, txerr |-> r.err,
                     err |-> r.err, panic |-> FALSE]
               ELSE [begun |-> 1, commits |-> 1, rollbacks |-> 0, txerr |-> "nil",
                     err |-> db.commit, panic |-> FALSE])

\* the records handed to the operations, and the databases they meet
DBRecords ==
    {[rel |-> r, pkv |-> p] : r \in {"", "person", "pet", "log"},
                              p \in {"absent", "null", "set"}}
DBRecordLists == UNION {[1..n -> DBRecords] : n \in 0..MaxRecords}
Databases(n) ==
    {[begin |-> b, stmts |-> st, commit |-> c] :
        b \in {"nil", "begin error"}, st \in [1..n -> DbResults],
        c \in {"nil", "commit error"}}

TxInit ==
    /\ kind = Integer
    /\ cur = NilValue
    /\ pre = NilValue
    /\ op = "New"
    /\ arg = Nil
    /\ res = "nil"
    /\ field = <<>>
    /\ heap = <<>>
    /\ hpre = <<>>
    /\ held = {}
    /\ hop = [op |-> "none", a |-> 0, v |-> 0]
    /\ queries = <<>>
    /\ arrays = <<>>
    /\ apre = <<>>
    /\ qop = [op |-> "none", q |-> 0, r |-> 0, err |-> "nil", sent |-> FALSE,
              panic |-> FALSE]
    /\ fcall = "none"
    /\ fin = <<>>
    /\ fout = <<>>
    /\ dbop = [op |-> "none"]

\* one call of a DB operation on a fresh connection
DBDone(name, vs, db) ==
    /\ dbop.op = "none"
    /\ dbop' = [op |-> name, vs |-> vs, db |-> db, out |-> DBCall(name, vs, db)]
    /\ UNCHANGED <<valueVars, heapVars, queryVars, fnVars>>

DBInsert(vs, db) == DBDone("Insert", vs, db)
DBUpdate(vs, db) == DBDone("Update", vs, db)
DBUpsert(vs, db) == DBDone("Upsert", vs, db)
DBDelete(vs, db) == DBDone("Delete", vs, db)

TxNext ==
    \/ \E vs \in DBRecordLists : \E db \in Databases(Len(vs)) : DBInsert(vs, db)
    \/ \E vs \in DBRecordLists : \E db \in Databases(Len(vs)) : DBUpdate(vs, db)
    \/ \E vs \in DBRecordLists : \E db \in Databases(Len(vs)) : DBUpsert(vs, db)
    \/ \E vs \in DBRecordLists : \E db \in Databases(Len(vs)) : DBDelete(vs, db)

TxSpec == TxInit /\ [][TxNext]_vars

(***************************************************************************)
(* The properties of Scan, IsNull, Val, String and bytes.                  *)
(***************************************************************************)
\* the last call was a Scan of a non-nil input that returned no error
Decoded == op = "Scan" /\ arg # Nil /\ res = "nil"

\* C1: after Scan(nil) on a value of any type, whatever it held, IsNull() is
\* true, Val() is nil, String() is the empty string and bytes() is "NULL".
C1_ScanNilIsNull ==
    (op = "Scan" /\ arg = Nil) =>
        /\ IsNull(cur)
        /\ Val(cur) = Nil
        /\ StringOf(cur) = {<<>>}
        /\ BytesOf(cur) = {nullBytes}

\* C2: a value v that a successful decode produced takes its own native form
\* back: v.Scan(v.Val()) returns no error and leaves v non-NULL with the same
\* Val(), and a following v.Scan(nil) makes it NULL with Val() nil.
C2_ScanOwnVal ==
    Decoded =>
        \E r \in {Scan(cur, Val(cur))} :
            /\ r.err = "nil"
            /\ ~IsNull(r.k)
            /\ Val(r.k) = Val(cur)
            /\ \E n \in {Scan(r.k, Nil)} : IsNull(n.k) /\ Val(n.k) = Nil

\* the encodings of v: its textual form as a string and as bytes, and its
\* raw encoding
Encodings(v) ==
    {NStr(x) : x \in StringOf(v)} \cup {NBytes(x) : x \in StringOf(v) \cup BytesOf(v)}

\* C3: for a scalar type and a valid input, decoding the encoding of the
\* decoded value into a value of the same type succeeds and yields the same
\* native form (here: for at least one of the value's encodings).
C3_ScalarRoundTrip ==
    (kind \in ScalarKinds /\ Decoded) =>
        \E e \in Encodings(cur) :
            \E r \in {Call(kind, e)} : r.err = "nil" /\ Val(r.k) = Val(cur)

\* C4: NULL is sticky: a Scan that returns an error on a NULL value leaves it
\* NULL.
C4_NullSticky ==
    (op = "Scan" /\ IsNull(pre) /\ res = "error") => IsNull(cur)

\* n is in the signed range of bits bits: -2^(bits-1) <= n <= 2^(bits-1) - 1
FitsSigned(n, bits) ==
    IF n.neg THEN ~MagLt(CutoffMag(bits), n.mag) ELSE MagLt(n.mag, CutoffMag(bits))

\* C5: a 16- or 32-bit Integer rejects every native integer outside its signed
\* range, above it and below it, and does not store it.
C5_IntegerRange ==
    (/\ kind \in {SmallInt, Integer}
     /\ op = "Scan"
     /\ arg.k \in {"int", "int64", "uint64"}
     /\ ~FitsSigned(arg.v, cur.bs)) =>
        /\ res = "error"
        /\ ~(cur.valid /\ cur.n = arg.v)

\* the native forms, the string and the bytes of a non-negative integer
IntForms(n, digits) == {NInt(n), NInt64(n), NUint(n), NStr(digits), NBytes(digits)}

\* C6: decoding 32767 into a SmallInt succeeds, decoding 40000 is an error,
\* whether the input is a native integer, a string or bytes.
C6_SmallIntBounds ==
    (kind = SmallInt /\ op = "Scan") =>
        /\ arg \in IntForms(I64(FALSE, <<3, 2, 7, 6, 7>>), <<"3", "2", "7", "6", "7">>) =>
               res = "nil" /\ Val(cur) = NInt64(I64(FALSE, <<3, 2, 7, 6, 7>>))
        /\ arg \in IntForms(I64(FALSE, <<4, 0, 0, 0, 0>>), <<"4", "0", "0", "0", "0">>) =>
               res = "error"

\* x without its trailing spaces
Stripped(x) ==
    SubSeq(x, 1, CHOOSE n \in 0..Len(x) :
                     /\ n = 0 \/ x[n] # " "
                     /\ \A i \in (n + 1)..Len(x) : x[i] = " ")

\* C7: Char(n) strips the trailing spaces of a string or bytes input; it
\* returns an error if the stripped length exceeds n, and else holds the
\* stripped input padded with spaces to a length of exactly n.
C7_CharWidth ==
    (kind.c = "Char" /\ op = "Scan" /\ arg.k \in {"string", "bytes"}) =>
        IF Len(Stripped(arg.v)) > kind.n THEN res = "error"
        ELSE /\ res = "nil"
             /\ ~IsNull(cur)
             /\ \A x \in StringOf(cur) :
                    /\ Len(x) = kind.n
                    /\ x = Stripped(arg.v) \o Spaces(kind.n - Len(Stripped(arg.v)))

\* C8: a Scan that returns an error on a scalar value changes nothing:
\* IsNull(), Val() and String() are as before the call; and a non-NULL Enum
\* holds one of its declared labels.
C8_NoPartialUpdate ==
    /\ (kind \in ScalarKinds /\ op = "Scan" /\ res = "error") =>
           /\ IsNull(cur) = IsNull(pre)
           /\ Val(cur) = Val(pre)
           /\ StringOf(cur) = StringOf(pre)
    /\ (kind.c = "Enum" /\ ~IsNull(cur)) =>
           \E i \in 1..Len(kind.labels) : cur.s = kind.labels[i]

\* C9: Bool decodes every string or bytes input without an error or a panic:
\* to true when the first byte is 't' or '1', to false otherwise, also when
\* the input is empty.
C9_BoolDecode ==
    (kind = Bool /\ op = "Scan" /\ arg.k \in {"string", "bytes"}) =>
        /\ res = "nil"
        /\ ~IsNull(cur)
        /\ Val(cur) = NBool(Len(arg.v) > 0 /\ arg.v[1] \in {"t", "1"})

\* C10: decoding the array literal {n1,n2,...} of a sequence of integers as
\* Array(Integer) yields that sequence, in order, as native form, and the
\* value encodes to the same literal; {} yields a non-NULL array with no
\* children that encodes to {}.
C10_ArrayRoundTrip ==
    (kind = Array(Integer) /\ op = "Scan" /\ arg.k \in {"string", "bytes"}) =>
        \A ns \in IntSeqs :
            arg.v = ArrayLiteral(ns) =>
                /\ res = "nil"
                /\ ~IsNull(cur)
                /\ Len(cur.vs) = Len(ns)
                /\ Val(cur) = NList([i \in 1..Len(ns) |-> NInt64(ns[i])])
                /\ BytesOf(cur) = {arg.v}
                /\ StringOf(cur) = {arg.v}

\* {7,-23,7} has been decoded by an array that held {} before
C10_Decoded ==
    /\ kind = Array(Integer)
    /\ op = "Scan"
    /\ arg = NStr(<<"{", "7", ",", "-", "2", "3", ",", "7", "}">>)
    /\ pre.valid /\ pre.vs = <<>>
    /\ Len(cur.vs) = 3

\* the native form of a sequence of groups of integers
NestedNative(gs) ==
    NList([i \in 1..Len(gs) |-> NList([j \in 1..Len(gs[i]) |-> NInt64(gs[i][j])])])

\* v.ValueAt(idx), idx from 0
ValueAt(v, idx) == v.vs[idx + 1]

\* C11: decoding the two-level literal of a sequence of brace groups as
\* Array(Array(Integer)) succeeds and yields one child array per group, in
\* order, whose children are the group's integers, in order.
C11_NestedArray ==
    (kind = Array(Array(Integer)) /\ op = "Scan" /\ arg.k \in {"string", "bytes"}) =>
        \A gs \in GroupSeqs :
            arg.v = NestedLiteral(gs) =>
                /\ res = "nil"
                /\ ~IsNull(cur)
                /\ Len(cur.vs) = Len(gs)
                /\ \A i \in 1..Len(gs) :
                       /\ cur.vs[i].t = "pgArray"
                       /\ Len(cur.vs[i].vs) = Len(gs[i])
                /\ Val(cur) = NestedNative(gs)

\* {{1,2},{3,4}} has been decoded, and ValueAt(1).ValueAt(0) is 3
C11_Decoded ==
    /\ kind = Array(Array(Integer))
    /\ op = "Scan"
    /\ arg = NStr(<<"{", "{", "1", ",", "2", "}", ",", "{", "3", ",", "4", "}", "}">>)
    /\ res = "nil"
    /\ Val(ValueAt(ValueAt(cur, 1), 0)) = NInt64(I64(FALSE, <<3>>))

\* the native form [1, "txt" with its quotes, 2.3]
Row3Native == NList(<<NInt64(One), NStr(QuotedTxt), NFloat(F(230))>>)

ColumnAt(d, name) ==
    IF \E i \in 1..Len(d.cols) : d.cols[i].name = name
    THEN CHOOSE i \in 1..Len(d.cols) : d.cols[i].name = name
    ELSE 0

HMapOf(ps) ==
    [k \in {ps[i].key : i \in {j \in 1..Len(ps) : ~ps[j].null}} |->
        ps[CHOOSE i \in 1..Len(ps) : ps[i].key = k].val]

\* C14: decoding the hstore literal of a list of pairs yields the map of
\* exactly the pairs whose value is not the bare NULL, with keys and values
\* unescaped; a key whose value is the bare NULL is absent.
C14_HStoreDecode ==
    (kind = HStore /\ op = "Scan" /\ arg.k = "bytes") =>
        \A ps \in HPairLists :
            arg.v = HLiteral(ps) =>
                /\ res = "nil"
                /\ ~IsNull(cur)
                /\ Val(cur) = NMap(HMapOf(ps))
                /\ \A i \in 1..Len(ps) :
                       IF ps[i].null THEN ValueBy(cur, ps[i].key) = NilValue
                       ELSE Get(cur, ps[i].key) = NStr(ps[i].val)

\* the number of elements of a Scan input: the length of a native sequence,
\* the number of parts split returns for a string or bytes literal; -1 for
\* any other input and for a literal split refuses
ElementCount(x) ==
    IF x.k = "list" THEN Len(x.v)
    ELSE IF x.k \in {"string", "bytes"} /\ split(x.v).err = "nil" THEN Len(split(x.v).parts)
    ELSE -1

\* C15: a Row or Record Scan of an input whose number of elements differs
\* from the number of declared positions returns an error and modifies no
\* child.
C15_Arity ==
    (/\ kind.c \in {"Row", "Record"}
     /\ op = "Scan"
     /\ ElementCount(arg) # -1
     /\ ElementCount(arg) # Len(pre.vs)) =>
        /\ res = "error"
        /\ cur.vs = pre.vs

\* a row of two non-NULL children has refused a sequence of three elements
C15_Refused ==
    /\ kind = Row(<<Integer, Text>>)
    /\ op = "Scan"
    /\ arg = NList(<<NInt(One), NStr(<<"a">>), NInt(One)>>)
    /\ \A i \in 1..Len(pre.vs) : ~IsNull(pre.vs[i])
    /\ res = "error"

\* C17: on an HStore value, Get(name) for a key that is not present returns
\* nil, as ValueBy(name) does; it does not panic.
C17_HStoreGetMissing ==
    kind = HStore =>
        \A name \in Names(kind) :
            ValueBy(cur, name) = NilValue => Get(cur, name) = Nil

\* C16: composite values own their children exclusively: no object is a
\* child of two different arrays, and a Scan on a child of one array leaves
\* the native form of every other array, and of every Integer the caller
\* holds, as it was.
C16_ExclusiveChildren ==
    /\ \A a \in HeapArrays(heap), b \in HeapArrays(heap) :
          a # b => Children(heap, a) \cap Children(heap, b) = {}
    /\ hop.op = "ScanChild" =>
          /\ \A b \in HeapArrays(hpre) \ {hop.a} : heapVal(heap, b) = heapVal(hpre, b)
          /\ \A v \in held \cap HeapLeaves(hpre) : heapVal(heap, v) = heapVal(hpre, v)

\* the clauses a Query can hold, each with the parameters it is given: those
\* the caller writes and the two that For writes
ClauseTable ==
    Clauses \cup {Clause(eqClause(ColId), <<"fk">>),
                  Clause(eqClause(ColPersonId), <<"pkv">>)}

ParamsOf(w) == (CHOOSE c \in ClauseTable : c.w = w).ps

\* the number of parameters of the clauses before the j-th
RECURSIVE paramsBefore(_, _)
paramsBefore(ws, j) ==
    IF j <= 1 THEN 0 ELSE paramsBefore(ws, j - 1) + Len(ParamsOf(ws[j - 1]))

\* the clause s with every placeholder $n written $(n + off)
RECURSIVE shiftPlaces(_, _, _)
shiftPlaces(s, p, off) ==
    IF p > Len(s) THEN <<>>
    ELSE IF placeAt(s, p)
    THEN <<s[p], s[p + 1]>>
           \o natDigits(digitsToNat(SubSeq(s, p + 2, placeEnd(s, p + 2))) + off)
           \o shiftPlaces(s, placeEnd(s, p + 2) + 1, off)
    ELSE <<s[p]>> \o shiftPlaces(s, p + 1, off)

\* C18: for a Query built by chained Where/And calls, each clause written
\* with placeholders from $1 and given its own parameters, the WHERE
\* expression is the k clauses joined with AND, the placeholders of the j-th
\* clause moved up by the number of parameters of the clauses before it, and
\* at those positions selectArgs holds that clause's own parameters.
C18_Renumbered ==
    \A i \in 1..Len(queries) :
       LET ws   == Elems(arrays, queries[i].where)
           args == selectArgs(arrays, queries[i])
       IN  (queries[i].err = "nil" /\ Len(ws) >= 1) =>
             /\ whereExpr(ws) =
                  <<"W", "H", "E", "R", "E", " ">>
                    \o Join([j \in 1..Len(ws) |->
                                shiftPlaces(ws[j], 1, paramsBefore(ws, j))], SepAnd)
             /\ \A j \in 1..Len(ws) : \A o \in 1..Len(ParamsOf(ws[j])) :
                   /\ paramsBefore(ws, j) + o <= Len(args)
                   /\ args[paramsBefore(ws, j) + o] = ParamsOf(ws[j])[o]

\* C19: Where, And, Limit, Offset and For leave the receiver, and every
\* other Query made before the call, with the clause list and the parameter
\* list it had: only the Query returned is new.
C19_ReceiverUnchanged ==
    qop.op \in Builders =>
        \A i \in 1..Len(queries) :
            (i # qop.r \/ qop.r = qop.q) =>
                /\ Elems(arrays, queries[i].where) = Elems(apre, queries[i].where)
                /\ Elems(arrays, queries[i].whereParams)
                     = Elems(apre, queries[i].whereParams)

\* C20: a call on a Query that carries an error does not panic; a builder
\* returns a Query carrying the same error, and a terminal operation
\* returns that error and sends no SQL.
C20_StickyError ==
    (qop.q # 0 /\ queries[qop.q].err # "nil") =>
        /\ ~qop.panic
        /\ qop.op \in Builders =>
              /\ qop.r # 0
              /\ queries[qop.r].err = queries[qop.q].err
        /\ qop.op \in Terminals =>
              /\ qop.err = queries[qop.q].err
              /\ ~qop.sent
              /\ qop.sql = NoSql

\* FetchOne on a Query whose error For recorded returned that error
C20_DeferredReturned ==
    /\ qop.op = "FetchOne"
    /\ queries[qop.q].err = "NULL foreign key"
    /\ qop.err = "NULL foreign key"
    /\ ~qop.sent

\* C21: split returns an error whenever its input's first byte is neither
\* '{' nor '(', and whenever the last byte is not the closing delimiter that
\* matches the first byte.
C21_SplitRefuses ==
    (fcall = "split" /\ Len(fin) >= 1) =>
        ((fin[1] \notin {"{", "("} \/ fin[Len(fin)] # CloserOf(fin[1]))
            => fout.err # "nil")

\* C22: decoding a literal with an unterminated quoted element, or with an
\* inner '{' that has no matching '}', returns an error.
C22_UnterminatedRefused ==
    (fcall = "decode" /\ fin.s \in Unterminated) => fout.err # "nil"

\* C23: a byte string escaped for dialect 1 or 2 and put between double
\* quotes as the only element of a literal of that dialect comes back from
\* split as exactly one element, equal to the byte string.
C23_EscapeInverse ==
    fcall = "escape" => (fout.err = "nil" /\ fout.parts = <<fin.s>>)


(***************************************************************************)
(* The serialization of composites.                                        *)
(***************************************************************************)
NumberTypes == {"pgNumeric", "pgBool", "pgInteger", "pgFloat"}

\* the children vs[i..] written one by one: as their own bytes when their
\* type is in plain, else between double quotes and escaped with dialect
RECURSIVE Written(_, _, _, _)
Written(vs, i, dialect, plain) ==
    IF i > Len(vs) THEN {<<>>}
    ELSE {<<IF vs[i].t \in plain THEN cb ELSE <<"\"">> \o escape(cb, dialect) \o <<"\"">>>>
            \o rest : cb \in BytesOf(vs[i]), rest \in Written(vs, i + 1, dialect, plain)}

\* the serializations of the valid composite v with the children written by
\* the rule above
Serialized(v, plain) ==
    IF v.t = "pgArray"
    THEN {<<"{">> \o Join(cs, <<",">>) \o <<"}">> : cs \in Written(v.vs, 1, 1, plain)}
    ELSE {<<"(">> \o Join(cs, <<",">>) \o <<")">> : cs \in Written(v.vs, 1, 2, plain)}

C29_NestedTextRoundTrip ==
    (fcall = "reencode" /\ fin.err = "nil") =>
        \A r \in fout : r.err = "nil" /\ Val(r.k) = Val(fin.v)


(***************************************************************************)
(* The number of children of a composite.                                  *)
(***************************************************************************)
\* the number of elements of a well-formed array input: the length of a
\* native sequence, the number of integers or of brace groups of a literal
\* written from them; -1 for every other input
ElementsOf(x) ==
    IF x.k = "list" THEN Len(x.v)
    ELSE IF x.k \in {"string", "bytes"} /\ \E ns \in IntSeqs : x.v = ArrayLiteral(ns)
    THEN Len(CHOOSE ns \in IntSeqs : x.v = ArrayLiteral(ns))
    ELSE IF x.k \in {"string", "bytes"} /\ \E gs \in GroupSeqs : x.v = NestedLiteral(gs)
    THEN Len(CHOOSE gs \in GroupSeqs : x.v = NestedLiteral(gs))
    ELSE -1

Occurs(sub, s) ==
    \E a \in 1..(Len(s) - Len(sub) + 1) : SubSeq(s, a, a + Len(sub) - 1) = sub

\* C26: every clause given to Where/And is in the SQL selectSql builds; a
\* clause without a placeholder stands in the WHERE expression as written,
\* at whatever place of the chain it was given.
C26_EveryClauseEmitted ==
    \A i \in 1..Len(queries) :
       LET ws == Elems(arrays, queries[i].where)
       IN  queries[i].err = "nil" =>
             \A j \in 1..Len(ws) :
                findPlaces(ws[j], 1) = <<>> =>
                    Occurs(ws[j], selectSql(arrays, queries[i], <<>>).where)


(***************************************************************************)
(* The NULL sentinel of hstore literals.                                   *)
(***************************************************************************)
\* C30: of the pairs of an hstore literal only those with the bare NULL are
\* dropped: the decoded map has a key for every other pair, the pair whose
\* value is the quoted text NULL included, and that key holds the text NULL
C30_OnlyBareNullDropped ==
    (kind = HStore /\ op = "Scan" /\ res = "nil" /\ arg.k \in {"string", "bytes"}) =>
        \A ps \in HPairLists :
            arg.v = HLiteral(ps) =>
                /\ DOMAIN cur.m = {ps[i].key : i \in {j \in 1..Len(ps) : ~ps[j].null}}
                /\ \A i \in 1..Len(ps) :
                       (~ps[i].null /\ ps[i].val = nullBytes) =>
                           pgHStore_Get(cur, ps[i].key) = NStr(nullBytes)


(***************************************************************************)
(* The records a query returns.                                            *)
(***************************************************************************)
\* C27: a RecordValue returned by Fetch, FetchOne or Get is not NULL:
\* IsNull() is false and Val() is the sequence of the native forms of its
\* children
C27_FetchedNotNull ==
    (fcall = "fetch" /\ fout.err = "nil") =>
        /\ ~IsNull(fout.k)
        /\ Val(fout.k) = NList([i \in 1..Len(fout.k.vs) |-> Val(fout.k.vs[i])])


(***************************************************************************)
(* The transaction of a DB operation.                                      *)
(***************************************************************************)
\* C28: DB.Insert, DB.Update, DB.Upsert and DB.Delete begin one transaction
\* and finish it exactly once: rolled back, never committed, with the Tx
\* operation's error returned when that operation returns an error, and
\* committed otherwise; never both and never twice.
C28_FinishedOnce ==
    (dbop.op # "none" /\ dbop.db.begin = "nil") =>
        /\ dbop.out.begun = 1
        /\ dbop.out.commits + dbop.out.rollbacks = 1
        /\ dbop.out.txerr # "nil" =>
               (dbop.out.rollbacks = 1 /\ dbop.out.err = dbop.out.txerr)
        /\ dbop.out.txerr = "nil" => dbop.out.commits = 1

====
